---- MODULE Spec2Model ----
(***************************************************************************)
(* Task-management backend (FastAPI services over PostgreSQL and Redis).   *)
(*                                                                         *)
(* The model covers the service layer (tasks, comments, tags, auth, user   *)
(* profile), the Redis-backed cache / token blacklist / rate limiter and   *)
(* the JWT primitives.  The relational store is modelled by its tables,    *)
(* the Redis store by its keyspaces, each with the expiry Redis applies.   *)
(*                                                                         *)
(* Time: `now' counts clock ticks; TicksPerSecond ticks make one second.   *)
(* JWT claims (exp, iat) are whole seconds, Redis expiry and time.time()   *)
(* are sub-second, so both granularities are kept.                         *)
(***************************************************************************)
EXTENDS Integers, Sequences, FiniteSets, Bags, TLC

\* ------------------------------------------------------------------ bounds

\* number of task rows the model creates
MaxTasks == 2
\* number of comment rows the model creates
MaxComments == 2
\* number of tag rows the model creates
MaxTags == 2
\* last clock tick the model explores
MaxTime == 3
\* task-list cache TTL (settings.cache_ttl_task_list, 60 s) scaled to ticks
CacheTtlTaskList == 2
\* task-detail cache TTL (settings.cache_ttl_task_detail, 300 s) scaled to ticks
CacheTtlTaskDetail == 3

\* number of users the model registers
MaxUsers == 2
\* clock ticks in one second
TicksPerSecond == 2
\* last clock tick explored by the token specification
MaxClock == 3
\* last clock tick explored by the rate-limit specification
MaxRateClock == 5
\* settings.jwt_access_token_expires_minutes (30 min), scaled, in seconds
AccessTokenExpireSeconds == 1
\* settings.jwt_refresh_token_expire_days (7 days), scaled, in seconds
RefreshTokenExpireSeconds == 1
\* settings.rate_limit_per_minute (100), scaled
RateLimitPerMinute == 2
\* window_seconds of check_rate_limit (60), scaled, in seconds
WindowSeconds == 2
\* number of check_rate_limit calls the model records
MaxRateCalls == 4
\* export jobs accepted
MaxExportJobs == 2
\* WebSocket connections accepted
MaxSockets == 3
\* check_rate_limit calls begun in the interleaving specification
MaxRaceCalls == 3

\* ------------------------------------------------------------------ values

None == "None"
\* absent text (None); `if search:` treats None and "" alike
NoText == << >>
\* a NULL timestamp column; << t >> is the timestamp t
Null == << >>

ADMIN == "admin"
MEMBER == "member"

\* TaskStatus / TaskPriority enums
TODO == "todo"
IN_PROGRESS == "in_progress"
DONE == "done"
LOW == "low"
MEDIUM == "medium"
HIGH == "high"

\* rows of the users table present before any request: one administrator
\* (registration can never create one) and two members
SeedUsers ==
  { [id |-> "u1", email |-> "root@x.com", password_hash |-> [bcrypt |-> "Admin123"],
     full_name |-> "Root", role |-> ADMIN, is_active |-> TRUE],
    [id |-> "u2", email |-> "a@x.com", password_hash |-> [bcrypt |-> "Secret12"],
     full_name |-> "Ann", role |-> MEMBER, is_active |-> TRUE],
    [id |-> "u3", email |-> "b@x.com", password_hash |-> [bcrypt |-> "Secret12"],
     full_name |-> "Bob", role |-> MEMBER, is_active |-> TRUE] }

\* ids handed out to rows created by the model (uuid4: fresh, never reused)
TaskIds == << "t1", "t2", "t3" >>
CommentIds == << "c1", "c2", "c3" >>
UserIds == << "u4", "u5", "u6" >>
TagIds == << "g1", "g2", "g3" >>
\* a well-formed user UUID that no row carries
GhostUser == "u9"

\* (title, description, priority) payloads of TaskCreate
TaskPayloads ==
  << [title |-> << "a" >>, description |-> NoText, priority |-> MEDIUM],
     [title |-> << "A", "b" >>, description |-> << "b" >>, priority |-> HIGH] >>

\* create-task requests: caller, payload, assigned_to
CreateInputs ==
  { [by |-> "u2", payload |-> 1, assigned_to |-> None],
    [by |-> "u2", payload |-> 2, assigned_to |-> "u3"],
    [by |-> "u3", payload |-> 1, assigned_to |-> "u1"],
    [by |-> "u1", payload |-> 2, assigned_to |-> None],
    [by |-> "u3", payload |-> 2, assigned_to |-> GhostUser] }

\* filter / sort / page tuples sent to the list endpoint
DefaultFilters ==
  [status |-> None, priority |-> None, search |-> NoText, assigned_to |-> None,
   sort_by |-> "created_at", order |-> "desc", page |-> 1, limit |-> 10]
FilterInputs ==
  { DefaultFilters,
    [DefaultFilters EXCEPT !.status = TODO, !.search = << "b" >>, !.order = "asc",
                           !.page = 2, !.limit = 1] }

\* the values Settings.environment may take (validate_environment)
Environments == { "development", "staging", "production" }

\* Settings as far as the error middleware reads them, with the field defaults
DefaultSettings == [environment |-> "development", debug |-> TRUE]

\* every Settings the validators accept: debug is not tied to environment
SettingsValues == [environment : Environments, debug : BOOLEAN]

\* ------------------------------------------------------------------ state

VARIABLES
  users,          \* users table: set of rows
  tasks,          \* tasks table: sequence of rows in created_at order
  comments,       \* comments table: sequence of rows in created_at order
  tags,           \* tags table: set of rows
  taskTags,       \* task_tags association table: bag of (task_id, tag_id) rows
  nextId,         \* rows created so far, per table (ids are never reused)
  cache,          \* Redis string keys written by CacheService: key -> entry
  blacklist,      \* Redis keys blacklist:token:<hash>: key -> entry
  rateLimit,      \* Redis sorted sets rate_limit:<user>:<endpoint>: key -> entry
  redisUp,        \* the Redis store answers (FALSE: unreachable / erroring)
  now,            \* clock, in ticks
  dbVersion,      \* number of committed task writes so far
  invalidatedUpTo,\* dbVersion at the last invalidate_all_task_lists that reached the store
  resp,           \* outcome of the last handler
  emitted,        \* WebSocket notifications emitted by the last handler
  enqueued,       \* Celery jobs enqueued by the last handler
  issued,         \* JWTs handed to clients so far
  revoked,        \* history: tokens for which blacklist_token returned True
  rateLog,        \* history: the check_rate_limit calls made so far, in order
  celeryQueue,    \* Celery export jobs sent to the broker and not yet run
  manager,        \* the ConnectionManager singleton: active_connections and task_viewers
  closedSockets,  \* WebSockets whose peer is gone; a send on them raises
  delivered,      \* messages put on WebSockets by the last handler that used the manager
  settings,       \* the Settings singleton read from the environment at start-up
  unread,         \* join_task frames a peer sent before it went away, not yet read by the endpoint
  inflight,       \* check_rate_limit calls under way: call number -> its locals and next step
  request,        \* path parameters of the last request to a comment endpoint
  celeryResults   \* Celery result backend: job id -> state and result of the finished job

vars == << users, tasks, comments, tags, taskTags, nextId, cache, blacklist, rateLimit, redisUp,
           now, dbVersion, invalidatedUpTo, resp, emitted, enqueued, issued, revoked, rateLog,
           celeryResults, request, inflight, unread, settings, delivered, closedSockets,
           manager, celeryQueue >>

\* ------------------------------------------------------------------ helpers

Range(s) == { s[i] : i \in 1..Len(s) }

Reverse(s) == [ i \in 1..Len(s) |-> s[Len(s) + 1 - i] ]

UserExists(uid) == \E u \in users : u.id = uid

\* the row SELECT ... WHERE id = uid returns (callers test UserExists first)
UserById(uid) == CHOOSE u \in users : u.id = uid

Min(a, b) == IF a < b THEN a ELSE b

IsMember(user) == user.role = MEMBER

\* ------------------------------------------------------------------ text

\* str.lower() on the characters the model uses
LowerChar(c) ==
  IF c = "A" THEN "a" ELSE IF c = "B" THEN "b" ELSE IF c = "U" THEN "u" ELSE c
Lower(text) == [ i \in 1..Len(text) |-> LowerChar(text[i]) ]

\* SQL  column ILIKE '%pattern%' ; a NULL column matches nothing
ILike(text, pattern) ==
  /\ text # NoText
  /\ \E i \in 1..(Len(text) - Len(pattern) + 1) :
       SubSeq(Lower(text), i, i + Len(pattern) - 1) = Lower(pattern)

\* ------------------------------------------------------------------ cache service

\* one colon-separated segment of a key that is a literal string
Lit(s) == [lit |-> s]

\* hashlib.md5(json.dumps(sorted(kwargs.items()))).hexdigest()[:8]; distinct
\* filter maps are taken to have distinct digests
Md5Hex8(kwargs) == [md5 |-> kwargs]

\* ":".join(digest) iterates over the digest STRING: one segment per hex character
JoinChars(digest) == [ i \in 1..8 |-> [hexchar |-> i, of |-> digest] ]

\* what evaluating an unassigned local raises
UnboundLocalError == << [raised |-> "UnboundLocalError"] >>

\* CacheService.generate_cache_key(prefix, *args, **kwargs); kwargs is << >>
\* when no keyword argument is passed and << map >> otherwise
GenerateCacheKey(prefix, args, kwargs) ==
  LET parts == << Lit(prefix) >> \o [ i \in 1..Len(args) |-> Lit(args[i]) ]
  IN IF kwargs # << >>
     THEN LET kwargs_hash == Md5Hex8(kwargs[1])
              parts2 == Append(parts, kwargs_hash)
          IN JoinChars(kwargs_hash)
     ELSE UnboundLocalError

\* json.dumps / json.loads
Serialize(value) == [json |-> value]
Deserialize(text) == text.json

\* a key is in the store and has not expired
Live(c, key, t) == key \in DOMAIN c /\ (c[key].expireAt = 0 \/ t < c[key].expireAt)

\* CacheService.get: << >> for None, << value >> for a hit
CacheGet(key) ==
  IF ~redisUp THEN << >>
  ELSE IF Live(cache, key, now) THEN << Deserialize(cache[key].value) >>
  ELSE << >>

\* CacheService.set: the keyspace after the call (setex when ttl is non-zero)
CacheSet(c, key, value, ttl) ==
  IF ~redisUp THEN c
  ELSE LET entry == [value |-> Serialize(value),
                     expireAt |-> IF ttl # 0 THEN now + ttl ELSE 0,
                     ver |-> dbVersion]
       IN [ k \in DOMAIN c \cup {key} |-> IF k = key THEN entry ELSE c[k] ]

\* CacheService.delete
CacheDelete(c, key) ==
  IF ~redisUp THEN c ELSE [ k \in DOMAIN c \ {key} |-> c[k] ]

\* glob match of a key against "<p1>:<p2>:*"
MatchesPrefix(key, prefix) ==
  Len(key) > Len(prefix) /\ SubSeq(key, 1, Len(prefix)) = prefix

\* CacheService.delete_pattern
DeletePattern(c, prefix) ==
  IF ~redisUp THEN c
  ELSE [ k \in { q \in DOMAIN c : ~MatchesPrefix(q, prefix) } |-> c[k] ]

\* invalidate_all_task_lists: delete_pattern("tasks:list:*")
InvalidateAllTaskLists(c) == DeletePattern(c, << Lit("tasks"), Lit("list") >>)

TaskListKey(user_id, filters) ==
  GenerateCacheKey("tasks", << "list", user_id >>, << filters >>)

TaskDetailKey(task_id) == GenerateCacheKey("task", << task_id >>, << >>)

\* ------------------------------------------------------------------ connection manager

\* WebSocket objects the server accepts: the object and the user_id its
\* endpoint coroutine holds
WebSocketIds == << "w1", "w2", "w3", "w4" >>

\* the manager's dictionaries together with the messages sent so far by the
\* running handler
Hub == [active_connections |-> manager.active_connections,
        task_viewers |-> manager.task_viewers, delivered |-> {}]

\* dict.get(key, set())
ViewersOf(task_viewers, task_id) ==
  IF task_id \in DOMAIN task_viewers THEN task_viewers[task_id] ELSE {}

\* ConnectionManager.disconnect for each of a user's websockets in turn
DisconnectSockets(h, websockets, user_id) ==
  IF user_id \notin DOMAIN h.active_connections THEN h
  ELSE LET conns == h.active_connections
           left == conns[user_id] \ websockets
           viewers == h.task_viewers
       IN IF left = {}
          THEN [h EXCEPT
                  !.active_connections = [ u \in DOMAIN conns \ { user_id } |-> conns[u] ],
                  !.task_viewers =
                     [ t \in { x \in DOMAIN viewers : viewers[x] # { user_id } } |->
                         viewers[t] \ { user_id } ]]
          ELSE [h EXCEPT !.active_connections =
                  [ u \in DOMAIN conns |-> IF u = user_id THEN left ELSE conns[u] ]]

\* ConnectionManager.disconnect
Disconnect(h, websocket, user_id) == DisconnectSockets(h, { websocket }, user_id)

\* ConnectionManager.send_personal_message: send_json on each of the user's
\* websockets; those that raise are disconnected afterwards
SendPersonalMessage(h, user_id, message) ==
  IF user_id \notin DOMAIN h.active_connections THEN h
  ELSE LET websockets == h.active_connections[user_id]
           disconnected == websockets \cap closedSockets
           sent == { [websocket |-> w, user_id |-> user_id, message |-> message] :
                     w \in websockets \ closedSockets }
       IN IF disconnected = {}
          THEN [h EXCEPT !.delivered = @ \cup sent]
          ELSE DisconnectSockets([h EXCEPT !.delivered = @ \cup sent], disconnected,
                                 user_id)

\* send_personal_message to each user of a list taken beforehand
RECURSIVE SendToEach(_, _, _)
SendToEach(h, user_ids, message) ==
  IF user_ids = {} THEN h
  ELSE LET user_id == CHOOSE u \in user_ids : TRUE
       IN SendToEach(SendPersonalMessage(h, user_id, message), user_ids \ { user_id },
                     message)

\* ConnectionManager.broadcast
Broadcast(h, message, exclude_user) ==
  SendToEach(h, DOMAIN h.active_connections \ { exclude_user }, message)

\* ConnectionManager.broadcast_to_task_viewers
BroadcastToTaskViewers(h, task_id, message) ==
  IF task_id \notin DOMAIN h.task_viewers THEN h
  ELSE SendToEach(h, h.task_viewers[task_id], message)

\* ConnectionManager.broadcast_user_status
BroadcastUserStatus(h, user_id, status) ==
  Broadcast(h, [type |-> "user_status", user_id |-> user_id, status |-> status], user_id)

\* ConnectionManager.connect
Connect(h, websocket, user_id) ==
  LET conns == h.active_connections
      added == [ u \in DOMAIN conns \cup { user_id } |->
                   IF u = user_id
                   THEN (IF u \in DOMAIN conns THEN conns[u] ELSE {}) \cup { websocket }
                   ELSE conns[u] ]
      greeted == SendPersonalMessage([h EXCEPT !.active_connections = added], user_id,
                                     [type |-> "connection", status |-> "connected"])
  IN BroadcastUserStatus(greeted, user_id, "online")

\* ConnectionManager.join_task_view
JoinTaskView(h, user_id, task_id) ==
  [h EXCEPT !.task_viewers =
     [ t \in DOMAIN @ \cup { task_id } |->
         IF t = task_id THEN ViewersOf(@, t) \cup { user_id } ELSE @[t] ]]

\* ConnectionManager.leave_task_view
LeaveTaskView(h, user_id, task_id) ==
  LET viewers == h.task_viewers
  IN IF task_id \in DOMAIN viewers /\ user_id \in viewers[task_id]
     THEN [h EXCEPT !.task_viewers =
             [ t \in { x \in DOMAIN viewers : x # task_id \/ viewers[x] # { user_id } } |->
                 IF t = task_id THEN viewers[t] \ { user_id } ELSE viewers[t] ]]
     ELSE h

\* ------------------------------------------------------------------ notification service

\* notify_task_created / notify_task_deleted
NotifyEveryoneElse(h, message) == Broadcast(h, message, message.by)

\* notify_task_updated
NotifyTaskUpdated(h, message) ==
  LET viewed == BroadcastToTaskViewers(h, message.task_id, message)
      assignee == IF message.assigned_to # None /\ message.assigned_to # message.by
                  THEN SendPersonalMessage(viewed, message.assigned_to, message)
                  ELSE viewed
  IN IF message.created_by # message.by /\ message.created_by # message.assigned_to
     THEN SendPersonalMessage(assignee, message.created_by, message)
     ELSE assignee

\* notify_task_assigned
NotifyTaskAssigned(h, message) == SendPersonalMessage(h, message.to, message)

\* the comment is announced to every connected user instead
NotifyCommentAddedToAll(h, message) == Broadcast(h, message, None)

\* notify_comment_added
NotifyCommentAdded(h, message) == BroadcastToTaskViewers(h, message.task_id, message)

\* notify_status_changed
NotifyStatusChanged(h, message) == BroadcastToTaskViewers(h, message.task_id, message)

\* the notify_* call a handler makes for a message
Notify(h, message) ==
  CASE message.type \in { "task_created", "task_deleted" } -> NotifyEveryoneElse(h, message)
    [] message.type = "task_updated" -> NotifyTaskUpdated(h, message)
    [] message.type = "task_assigned" -> NotifyTaskAssigned(h, message)
    [] message.type = "comment_added" -> NotifyCommentAdded(h, message)
    [] message.type = "task_status_changed" -> NotifyStatusChanged(h, message)

RECURSIVE NotifyAll(_, _)
NotifyAll(h, messages) ==
  IF messages = {} THEN h
  ELSE LET message == CHOOSE x \in messages : TRUE
       IN NotifyAll(Notify(h, message), messages \ { message })

\* the manager after a handler has made its notify_* calls
SendNotifications ==
  LET h == NotifyAll(Hub, emitted')
  IN /\ manager' = [active_connections |-> h.active_connections,
                    task_viewers |-> h.task_viewers]
     /\ delivered' = h.delivered

\* ------------------------------------------------------------------ task service

\* a row of the task_tags association table
AssociationRow(task_id, tag_id) == [task_id |-> task_id, tag_id |-> tag_id]

\* the association rows left when a task's rows are deleted (ON DELETE CASCADE)
RowsWithoutTask(task_id) ==
  [ r \in { x \in BagToSet(taskTags) : x.task_id # task_id } |-> CopiesIn(r, taskTags) ]

\* the association rows left when a tag's rows are deleted (ON DELETE CASCADE)
RowsWithoutTag(tag_id) ==
  [ r \in { x \in BagToSet(taskTags) : x.tag_id # tag_id } |-> CopiesIn(r, taskTags) ]

TaskById(task_id) ==
  IF \E i \in 1..Len(tasks) : tasks[i].id = task_id
  THEN << tasks[CHOOSE i \in 1..Len(tasks) : tasks[i].id = task_id] >>
  ELSE << >>

\* the dict get_tasks / get_task_by_id build from a row
TaskDict(task) ==
  [id |-> task.id, title |-> task.title, description |-> task.description,
   status |-> task.status, priority |-> task.priority,
   created_by |-> task.created_by, assigned_to |-> task.assigned_to]

\* the WHERE clauses get_tasks adds for a caller and a filter tuple
TaskVisible(task, current_user, f) ==
  /\ IsMember(current_user) =>
       (task.created_by = current_user.id \/ task.assigned_to = current_user.id)
  /\ f.status # None => task.status = f.status
  /\ f.priority # None => task.priority = f.priority
  /\ f.search # NoText => (ILike(task.title, f.search) \/ ILike(task.description, f.search))
  /\ f.assigned_to # None => task.assigned_to = f.assigned_to

\* the response get_tasks computes from the database (sort_by created_at:
\* the table is kept in creation order)
QueryTasks(current_user, f) ==
  LET matched == SelectSeq(tasks, LAMBDA t : TaskVisible(t, current_user, f))
      ordered == IF f.order = "asc" THEN matched ELSE Reverse(matched)
      total_count == Len(ordered)
      offset == (f.page - 1) * f.limit
      page_rows == SubSeq(ordered, offset + 1, Min(offset + f.limit, total_count))
  IN [tasks |-> [ i \in 1..Len(page_rows) |-> TaskDict(page_rows[i]) ],
      total |-> total_count, page |-> f.page, limit |-> f.limit,
      total_pages |-> (total_count + f.limit - 1) \div f.limit]

\* TaskService.get_tasks
GetTasks(uid, f) ==
  LET current_user == UserById(uid)
      key == TaskListKey(uid, f)
      cached_result == CacheGet(key)
  IN /\ IF cached_result # << >>
        THEN /\ resp' = [op |-> "get_tasks", user |-> uid, filters |-> f, status |-> 200,
                         body |-> cached_result[1], fromCache |-> TRUE,
                         entryVer |-> cache[key].ver, at |-> now, storeUp |-> redisUp]
             /\ cache' = cache
        ELSE LET response == QueryTasks(current_user, f)
             IN /\ resp' = [op |-> "get_tasks", user |-> uid, filters |-> f, status |-> 200,
                            body |-> response, fromCache |-> FALSE, entryVer |-> dbVersion,
                            at |-> now, storeUp |-> redisUp]
                /\ cache' = CacheSet(cache, key, response, CacheTtlTaskList)
     /\ emitted' = {}
     /\ enqueued' = {}
     /\ UNCHANGED << celeryResults, request, inflight, unread, settings, delivered,
                     closedSockets, manager, celeryQueue, users, blacklist, rateLimit, issued,
                     revoked, rateLog, tasks, comments, tags, taskTags, nextId, redisUp, now,
                     dbVersion, invalidatedUpTo >>

\* create_task with the notifications and the e-mail job moved in front of
\* the commit
CreateTaskNotifyFirst(uid, payload, assignee) ==
  /\ nextId.tasks < MaxTasks
  /\ LET new_task == [id |-> TaskIds[nextId.tasks + 1], title |-> payload.title,
                      description |-> payload.description, status |-> TODO,
                      priority |-> payload.priority, created_by |-> uid,
                      assigned_to |-> assignee]
     IN IF assignee # None /\ ~UserExists(assignee)
        THEN /\ resp' = [op |-> "create_task", user |-> uid, status |-> 404,
                         detail |-> "Assigned user not found"]
             /\ emitted' = { [type |-> "task_created", task_id |-> new_task.id, by |-> uid] }
             /\ enqueued' = {}
             /\ UNCHANGED << tasks, nextId, cache, dbVersion, invalidatedUpTo >>
        ELSE /\ tasks' = Append(tasks, new_task)
             /\ nextId' = [nextId EXCEPT !.tasks = @ + 1]
             /\ dbVersion' = dbVersion + 1
             /\ cache' = InvalidateAllTaskLists(cache)
             /\ invalidatedUpTo' = IF redisUp THEN dbVersion + 1 ELSE invalidatedUpTo
             /\ emitted' =
                  { [type |-> "task_created", task_id |-> new_task.id, by |-> uid] }
                  \cup (IF assignee # None
                        THEN { [type |-> "task_assigned", task_id |-> new_task.id,
                                to |-> assignee, by |-> uid] }
                        ELSE {})
             /\ enqueued' =
                  IF assignee # None
                  THEN { [job |-> "send_task_assigned_email",
                          user_email |-> UserById(assignee).email,
                          assigned_by |-> UserById(uid).full_name] }
                  ELSE {}
             /\ resp' = [op |-> "create_task", user |-> uid, status |-> 201,
                         body |-> new_task]
  /\ SendNotifications
  /\ UNCHANGED << celeryResults, request, inflight, unread, settings, closedSockets, celeryQueue,
                  users, blacklist, rateLimit, issued, revoked, rateLog,
                     comments, tags, taskTags, redisUp, now >>

\* TaskService.create_task; a foreign-key violation on assigned_to is the
\* IntegrityError the database raises at commit
CreateTask(uid, payload, assignee) ==
  /\ nextId.tasks < MaxTasks
  /\ LET new_task == [id |-> TaskIds[nextId.tasks + 1], title |-> payload.title,
                      description |-> payload.description, status |-> TODO,
                      priority |-> payload.priority, created_by |-> uid,
                      assigned_to |-> assignee]
     IN IF assignee # None /\ ~UserExists(assignee)
        THEN /\ resp' = [op |-> "create_task", user |-> uid, status |-> 404,
                         detail |-> "Assigned user not found"]
             /\ emitted' = {}
             /\ enqueued' = {}
             /\ UNCHANGED << tasks, nextId, cache, dbVersion, invalidatedUpTo >>
        ELSE /\ tasks' = Append(tasks, new_task)
             /\ nextId' = [nextId EXCEPT !.tasks = @ + 1]
             /\ dbVersion' = dbVersion + 1
             /\ cache' = InvalidateAllTaskLists(cache)
             /\ invalidatedUpTo' = IF redisUp THEN dbVersion + 1 ELSE invalidatedUpTo
             /\ emitted' =
                  { [type |-> "task_created", task_id |-> new_task.id, by |-> uid] }
                  \cup (IF assignee # None
                        THEN { [type |-> "task_assigned", task_id |-> new_task.id,
                                to |-> assignee, by |-> uid] }
                        ELSE {})
             /\ enqueued' =
                  IF assignee # None
                  THEN { [job |-> "send_task_assigned_email",
                          user_email |-> UserById(assignee).email,
                          assigned_by |-> UserById(uid).full_name] }
                  ELSE {}
             /\ resp' = [op |-> "create_task", user |-> uid, status |-> 201,
                         body |-> new_task]
  /\ SendNotifications
  /\ UNCHANGED << celeryResults, request, inflight, unread, settings, closedSockets, celeryQueue,
                  users, blacklist, rateLimit, issued, revoked, rateLog,
                     comments, tags, taskTags, redisUp, now >>

\* TaskService.get_task_by_id: the status it ends with, the row it returns
\* and the keyspace it leaves.  generate_cache_key is evaluated (and raises)
\* before the database is read.
GetTaskByIdOutcome(task_id, uid) ==
  LET current_user == UserById(uid)
      key == TaskDetailKey(task_id)
      found == TaskById(task_id)
  IN IF key = UnboundLocalError
     THEN [status |-> 500, detail |-> "UnboundLocalError", task |-> << >>, cache |-> cache]
     ELSE IF found = << >>
     THEN [status |-> 404, detail |-> "task not found", task |-> << >>, cache |-> cache]
     ELSE IF /\ IsMember(current_user)
             /\ found[1].created_by # uid
             /\ found[1].assigned_to # uid
     THEN [status |-> 403, detail |-> " not authorized to view this task",
           task |-> << >>, cache |-> cache]
     ELSE [status |-> 200, detail |-> "", task |-> found,
           cache |-> CacheSet(cache, key, TaskDict(found[1]), CacheTtlTaskDetail)]

GetTaskById(task_id, uid) ==
  LET out == GetTaskByIdOutcome(task_id, uid)
  IN /\ resp' = [op |-> "get_task_by_id", user |-> uid, task_id |-> task_id,
                 status |-> out.status, detail |-> out.detail, body |-> out.task]
     /\ cache' = out.cache
     /\ emitted' = {}
     /\ enqueued' = {}
     /\ UNCHANGED << celeryResults, request, inflight, unread, settings, delivered,
                     closedSockets, manager, celeryQueue, users, blacklist, rateLimit, issued,
                     revoked, rateLog, tasks, comments, tags, taskTags, nextId, redisUp, now,
                     dbVersion, invalidatedUpTo >>

\* partial-update payloads of TaskUpdate (model_dump(exclude_unset=True))
UpdateInputs ==
  { [status |-> DONE], [assigned_to |-> "u3"], [status |-> TODO, priority |-> LOW] }

\* the rows of a table with one row replaced
ReplaceRow(table, row) ==
  [ i \in 1..Len(table) |-> IF table[i].id = row.id THEN row ELSE table[i] ]

\* TaskService.update_task
UpdateTask(task_id, update, uid) ==
  LET current_user == UserById(uid)
      out == GetTaskByIdOutcome(task_id, uid)
      task == out.task[1]
      changes == { field \in DOMAIN update : task[field] # update[field] }
      updated == [ field \in DOMAIN task |->
                     IF field \in DOMAIN update THEN update[field] ELSE task[field] ]
      key == TaskDetailKey(task_id)
  IN /\ IF out.status # 200
        THEN /\ resp' = [op |-> "update_task", user |-> uid, task_id |-> task_id, update |-> update,
                         status |-> out.status, detail |-> out.detail]
             /\ cache' = out.cache
             /\ emitted' = {}
             /\ UNCHANGED << tasks, dbVersion, invalidatedUpTo >>
        ELSE IF IsMember(current_user) /\ task.created_by # uid
        THEN /\ resp' = [op |-> "update_task", user |-> uid, task_id |-> task_id, update |-> update,
                         status |-> 403, detail |-> "Not authorized to update this task"]
             /\ cache' = out.cache
             /\ emitted' = {}
             /\ UNCHANGED << tasks, dbVersion, invalidatedUpTo >>
        ELSE /\ tasks' = ReplaceRow(tasks, updated)
             /\ dbVersion' = dbVersion + 1
             /\ IF key = UnboundLocalError
                THEN \* raised inside the try after the commit: rollback is a no-op
                     /\ resp' = [op |-> "update_task", user |-> uid, task_id |-> task_id,
                                 update |-> update,
                                 status |-> 500, detail |-> "Failed to update task"]
                     /\ cache' = out.cache
                     /\ emitted' = {}
                     /\ UNCHANGED invalidatedUpTo
                ELSE /\ cache' = InvalidateAllTaskLists(CacheDelete(out.cache, key))
                     /\ invalidatedUpTo' = IF redisUp THEN dbVersion + 1 ELSE invalidatedUpTo
                     /\ emitted' =
                          { [type |-> "task_updated", task_id |-> task_id, by |-> uid,
                             changes |-> changes, created_by |-> updated.created_by,
                             assigned_to |-> updated.assigned_to] }
                          \cup (IF "status" \in changes
                                THEN { [type |-> "task_status_changed", task_id |-> task_id,
                                        old_status |-> task.status,
                                        new_status |-> updated.status, by |-> uid] }
                                ELSE {})
                          \cup (IF updated.assigned_to # None
                                   /\ updated.assigned_to # task.assigned_to
                                THEN { [type |-> "task_assigned", task_id |-> task_id,
                                        to |-> updated.assigned_to, by |-> uid] }
                                ELSE {})
                     /\ resp' = [op |-> "update_task", user |-> uid, task_id |-> task_id,
                                 update |-> update,
                                 status |-> 200, detail |-> "", body |-> updated]
     /\ enqueued' = {}
     /\ SendNotifications
     /\ UNCHANGED << celeryResults, request, inflight, unread, settings, closedSockets, celeryQueue,
                     users, blacklist, rateLimit, issued, revoked, rateLog,
                     comments, tags, taskTags, nextId, redisUp, now >>

\* TaskService.delete_task; the row's comments and tag associations go with
\* it (ON DELETE CASCADE)
DeleteTask(task_id, uid) ==
  LET current_user == UserById(uid)
      out == GetTaskByIdOutcome(task_id, uid)
      task == out.task[1]
      key == TaskDetailKey(task_id)
  IN /\ IF out.status # 200
        THEN /\ resp' = [op |-> "delete_task", user |-> uid, task_id |-> task_id,
                         status |-> out.status, detail |-> out.detail]
             /\ cache' = out.cache
             /\ emitted' = {}
             /\ UNCHANGED << tasks, comments, taskTags, dbVersion, invalidatedUpTo >>
        ELSE IF IsMember(current_user) /\ task.created_by # uid
        THEN /\ resp' = [op |-> "delete_task", user |-> uid, task_id |-> task_id,
                         status |-> 403, detail |-> "Not authorized to delete this task"]
             /\ cache' = out.cache
             /\ emitted' = {}
             /\ UNCHANGED << tasks, comments, taskTags, dbVersion, invalidatedUpTo >>
        ELSE /\ tasks' = SelectSeq(tasks, LAMBDA t : t.id # task_id)
             /\ comments' = SelectSeq(comments, LAMBDA c : c.task_id # task_id)
             /\ taskTags' = RowsWithoutTask(task_id)
             /\ dbVersion' = dbVersion + 1
             /\ IF key = UnboundLocalError
                THEN /\ resp' = [op |-> "delete_task", user |-> uid, task_id |-> task_id,
                                 status |-> 500, detail |-> "Failed to delete task"]
                     /\ cache' = out.cache
                     /\ emitted' = {}
                     /\ UNCHANGED invalidatedUpTo
                ELSE /\ cache' = InvalidateAllTaskLists(CacheDelete(out.cache, key))
                     /\ invalidatedUpTo' = IF redisUp THEN dbVersion + 1 ELSE invalidatedUpTo
                     /\ emitted' = { [type |-> "task_deleted", task_id |-> task_id, by |-> uid] }
                     /\ resp' = [op |-> "delete_task", user |-> uid, task_id |-> task_id,
                                 status |-> 200, detail |-> ""]
     /\ enqueued' = {}
     /\ SendNotifications
     /\ UNCHANGED << celeryResults, request, inflight, unread, settings, closedSockets, celeryQueue,
                     users, blacklist, rateLimit, issued, revoked, rateLog,
                     tags, nextId, redisUp, now >>

\* ------------------------------------------------------------------ export

\* ids Celery gives to the jobs it accepts
JobIds == << "j1", "j2", "j3" >>

\* query strings sent to GET /tasks/export/csv: status, priority, assigned_to
ExportInputs ==
  { [status |-> None, priority |-> None, assigned_to |-> None],
    [status |-> None, priority |-> None, assigned_to |-> "u1"],
    [status |-> TODO, priority |-> HIGH, assigned_to |-> "U3"],
    [status |-> None, priority |-> MEDIUM, assigned_to |-> "nobody"] }

\* uuid.UUID(text): the UUID a string denotes (hex digits in either case), or
\* ValueError for a string that is not a UUID
UUID(text) ==
  CASE text \in { "u1", "u2", "u3", "u4", "u5", "u6", GhostUser } -> text
    [] text = "U3" -> "u3"
    [] OTHER -> "ValueError"

\* the role clause dropped: every row is in scope
ExportScopeAll(task, user) == TRUE

\* the role-based WHERE clause of the export query
ExportScope(task, user) ==
  IsMember(user) => (task.created_by = user.id \/ task.assigned_to = user.id)

\* the WHERE clauses _export_tasks_csv_async builds; an assigned_to that is
\* not a UUID is logged and adds no clause
ExportMatches(task, user, filters) ==
  /\ ExportScope(task, user)
  /\ filters.status # None => task.status = filters.status
  /\ filters.priority # None => task.priority = filters.priority
  /\ (filters.assigned_to # None /\ UUID(filters.assigned_to) # "ValueError")
       => task.assigned_to = UUID(filters.assigned_to)

CsvFieldNames == << "ID", "Title", "Description", "Status", "Priority", "Created By",
                    "Assigned To" >>

\* the dict writer.writerow receives for a task
CsvRow(task) ==
  [ID |-> task.id, Title |-> task.title, Description |-> task.description,
   Status |-> task.status, Priority |-> task.priority, Created_By |-> task.created_by,
   Assigned_To |-> IF task.assigned_to # None THEN task.assigned_to ELSE ""]

\* GET /tasks/export/csv for the authenticated user uid: the job is handed to
\* Celery and 202 is answered
ExportTasksToCsv(uid, q) ==
  LET filters == [status |-> q.status, priority |-> q.priority,
                  assigned_to |-> q.assigned_to]
      task == [id |-> JobIds[nextId.jobs + 1], name |-> "tasks.export.export_tasks_csv",
               user_id |-> uid, filters |-> filters]
  IN /\ nextId.jobs < MaxExportJobs
     /\ celeryQueue' = celeryQueue \cup { task }
     /\ nextId' = [nextId EXCEPT !.jobs = @ + 1]
     /\ resp' = [op |-> "export_tasks_to_csv", user |-> uid, status |-> 202,
                 body |-> [task_id |-> task.id, status |-> "processing"]]
     /\ emitted' = {}
     /\ enqueued' = { task }
     /\ UNCHANGED << celeryResults, request, inflight, unread, settings, delivered,
                     closedSockets, manager, users, tasks, comments, tags, taskTags, cache,
                     blacklist, rateLimit, redisUp, now, dbVersion, invalidatedUpTo, issued,
                     revoked, rateLog >>

\* what the worker returns or raises for a job: the state Celery records and
\* the result dict (or the exception)
ExportOutcome(job) ==
  IF ~UserExists(job.user_id)
  THEN [state |-> "FAILURE", detail |-> "ValueError"]
  ELSE LET user == UserById(job.user_id)
           rows == SelectSeq(tasks, LAMBDA t : ExportMatches(t, user, job.filters))
       IN [state |-> "SUCCESS",
           result |-> [status |-> "complete", task_count |-> Len(rows),
                       csv_content |->
                         [header |-> CsvFieldNames,
                          rows |-> [ i \in 1..Len(rows) |-> CsvRow(rows[i]) ]],
                       filename |-> << "tasks_export", now >>]]

\* the worker runs export_tasks_csv / _export_tasks_csv_async for a queued job;
\* the outcome goes to the result backend under the job's id (requested_by is
\* history: the user whose request enqueued the job)
ExportTasksCsv(job) ==
  /\ job \in celeryQueue
  /\ celeryQueue' = celeryQueue \ { job }
  /\ resp' = [op |-> "export_tasks_csv", job |-> job] @@ ExportOutcome(job)
  /\ celeryResults' =
       (job.id :> (ExportOutcome(job) @@ [requested_by |-> job.user_id])) @@ celeryResults
  /\ emitted' = {}
  /\ enqueued' = {}
  /\ UNCHANGED << request, inflight, unread, settings, delivered, closedSockets, manager,
                  users, tasks, comments, tags, taskTags, nextId, cache, blacklist,
                  rateLimit, redisUp, now, dbVersion, invalidatedUpTo, issued, revoked,
                  rateLog >>

\* GET /tasks/export/status/{task_id} for the authenticated user uid
CheckExportStatus(task_id, uid) ==
  /\ resp' =
       [op |-> "check_export_status", user |-> uid, task_id |-> task_id, status |-> 200,
        body |->
          IF task_id \notin DOMAIN celeryResults
          THEN [task_id |-> task_id, status |-> "PENDING"]
          ELSE IF celeryResults[task_id].state = "SUCCESS"
          THEN [task_id |-> task_id, status |-> "SUCCESS",
                result |-> [task_count |-> celeryResults[task_id].result.task_count,
                            filename |-> celeryResults[task_id].result.filename,
                            download_url |-> << "download", task_id >>]]
          ELSE [task_id |-> task_id, status |-> "FAILURE",
                error |-> celeryResults[task_id].detail]]
  /\ emitted' = {}
  /\ enqueued' = {}
  /\ UNCHANGED << celeryResults, request, inflight, unread, settings, delivered,
                  closedSockets, manager, celeryQueue, users, tasks, comments, tags,
                  taskTags, nextId, cache, blacklist, rateLimit, redisUp, now, dbVersion,
                  invalidatedUpTo, issued, revoked, rateLog >>

\* GET /tasks/export/download/{task_id} for the authenticated user uid
DownloadExport(task_id, uid) ==
  /\ resp' =
       [op |-> "download_export", user |-> uid, task_id |-> task_id] @@
       ( IF task_id \notin DOMAIN celeryResults
         THEN [status |-> 400, detail |-> "Export is still processing. Check status first."]
         ELSE IF celeryResults[task_id].state # "SUCCESS"
         THEN [status |-> 500, detail |-> "Export failed"]
         ELSE [status |-> 200, content |-> celeryResults[task_id].result.csv_content,
               filename |-> celeryResults[task_id].result.filename] )
  /\ emitted' = {}
  /\ enqueued' = {}
  /\ UNCHANGED << celeryResults, request, inflight, unread, settings, delivered,
                  closedSockets, manager, celeryQueue, users, tasks, comments, tags,
                  taskTags, nextId, cache, blacklist, rateLimit, redisUp, now, dbVersion,
                  invalidatedUpTo, issued, revoked, rateLog >>

\* ------------------------------------------------------------------ comment service

\* content of CommentCreate
CommentContents == { "first", "edit" }

\* CommentService.create_comment.  The insert, the notification, the e-mail
\* jobs and the assignment of comment_with_author all sit inside the
\* `if current_user.role == UserRole.MEMBER:` block; the final
\* `return comment_with_author` is outside it.
CreateComment(task_id, content, uid) ==
  LET current_user == UserById(uid)
      found == TaskById(task_id)
      task == found[1]
      new_comment == [id |-> CommentIds[nextId.comments + 1], task_id |-> task_id,
                      user_id |-> uid, content |-> content, deleted_at |-> Null]
      users_to_notify ==
        { x \in { task.created_by, task.assigned_to } : x # None /\ x # uid }
      base == [op |-> "create_comment", user |-> uid, task_id |-> task_id,
               before |-> Len(comments)]
  IN /\ nextId.comments < MaxComments
     /\ IF found = << >>
        THEN /\ resp' = [base EXCEPT !.op = "create_comment"] @@
                        [status |-> 404, detail |-> "Task not found"]
             /\ emitted' = {}
             /\ enqueued' = {}
             /\ UNCHANGED << comments, nextId >>
        ELSE IF IsMember(current_user)
        THEN IF task.created_by # uid /\ task.assigned_to # uid
             THEN /\ resp' = base @@ [status |-> 403,
                                      detail |-> "Not authorized to comment on this task"]
                  /\ emitted' = {}
                  /\ enqueued' = {}
                  /\ UNCHANGED << comments, nextId >>
             ELSE /\ comments' = Append(comments, new_comment)
                  /\ nextId' = [nextId EXCEPT !.comments = @ + 1]
                  /\ emitted' = { [type |-> "comment_added", task_id |-> task_id,
                                   comment |-> new_comment.id, by |-> uid] }
                  /\ enqueued' =
                       { [job |-> "send_task_comment_notification",
                          user_email |-> UserById(x).email,
                          commenter_name |-> current_user.full_name] :
                         x \in { y \in users_to_notify : UserExists(y) } }
                  /\ resp' = base @@ [status |-> 201, detail |-> "", body |-> new_comment]
        ELSE \* comment_with_author was never assigned
             /\ resp' = base @@ [status |-> 500, detail |-> "UnboundLocalError"]
             /\ emitted' = {}
             /\ enqueued' = {}
             /\ UNCHANGED << comments, nextId >>
     /\ SendNotifications
     /\ UNCHANGED << celeryResults, request, inflight, unread, settings, closedSockets, celeryQueue,
                     users, blacklist, rateLimit, issued, revoked, rateLog,
                     tasks, tags, taskTags, cache, redisUp, now, dbVersion,
                     invalidatedUpTo >>

\* (page, limit) pairs sent to the comment list endpoint
CommentPages == { [page |-> 1, limit |-> 2], [page |-> 2, limit |-> 1] }

\* deleted rows are listed too
CommentOfTask(comment, task_id) == comment.task_id = task_id

\* the WHERE clause of get_comments: the task's rows that are not soft-deleted
CommentListed(comment, task_id) ==
  comment.task_id = task_id /\ comment.deleted_at = Null

\* CommentService.get_comments (created_at desc: the table is kept in
\* creation order)
GetComments(task_id, uid, page, limit) ==
  LET current_user == UserById(uid)
      found == TaskById(task_id)
      task == found[1]
      base == [op |-> "get_comments", user |-> uid, task_id |-> task_id]
      matched == Reverse(SelectSeq(comments, LAMBDA c : CommentListed(c, task_id)))
      total_count == Len(matched)
      offset == (page - 1) * limit
      rows == SubSeq(matched, offset + 1, Min(offset + limit, total_count))
  IN /\ resp' =
          IF found = << >>
          THEN base @@ [status |-> 404, detail |-> "Task not found"]
          ELSE IF /\ IsMember(current_user)
                  /\ task.created_by # uid
                  /\ task.assigned_to # uid
          THEN base @@ [status |-> 403,
                        detail |-> "Not authorized to view this task's comments"]
          ELSE base @@ [status |-> 200, detail |-> "",
                        body |-> [comments |-> rows, total |-> total_count,
                                  page |-> page, limit |-> limit]]
     /\ emitted' = {}
     /\ enqueued' = {}
     /\ UNCHANGED << celeryResults, request, inflight, unread, settings, users, tasks, comments,
                     tags, taskTags, nextId, cache, blacklist, rateLimit, redisUp, now,
                     dbVersion, invalidatedUpTo, issued, revoked, rateLog, celeryQueue, manager,
                     closedSockets, delivered >>

\* the row SELECT ... WHERE Comment.id = comment_id returns: << >> or << row >>
CommentById(comment_id) ==
  IF \E i \in 1..Len(comments) : comments[i].id = comment_id
  THEN << comments[CHOOSE i \in 1..Len(comments) : comments[i].id = comment_id] >>
  ELSE << >>

\* CommentService.update_comment (author only)
UpdateComment(comment_id, content, uid) ==
  LET found == CommentById(comment_id)
      comment == found[1]
      base == [op |-> "update_comment", user |-> uid, comment_id |-> comment_id]
  IN /\ IF found = << >>
        THEN /\ resp' = base @@ [status |-> 404, detail |-> "Comment not found"]
             /\ UNCHANGED comments
        ELSE IF comment.user_id # uid
        THEN /\ resp' = base @@ [status |-> 403,
                                 detail |-> "Not authorized to edit this comment"]
             /\ UNCHANGED comments
        ELSE /\ comments' = ReplaceRow(comments, [comment EXCEPT !.content = content])
             /\ resp' = base @@ [status |-> 200, detail |-> "",
                                 body |-> [comment EXCEPT !.content = content]]
     /\ emitted' = {}
     /\ enqueued' = {}
     /\ UNCHANGED << celeryResults, inflight, unread, settings, users, tasks, tags, taskTags,
                     nextId, cache, blacklist, rateLimit, redisUp, now, dbVersion,
                     invalidatedUpTo, issued, revoked, rateLog, celeryQueue, manager,
                     closedSockets, delivered >>

\* CommentService.delete_comment (author or admin): a soft delete
DeleteComment(comment_id, uid) ==
  LET current_user == UserById(uid)
      found == CommentById(comment_id)
      comment == found[1]
      base == [op |-> "delete_comment", user |-> uid, comment_id |-> comment_id]
  IN /\ IF found = << >>
        THEN /\ resp' = base @@ [status |-> 404, detail |-> "Comment not found"]
             /\ UNCHANGED comments
        ELSE IF comment.user_id # uid /\ current_user.role # ADMIN
        THEN /\ resp' = base @@ [status |-> 403,
                                 detail |-> "Not authorized to delete this comment"]
             /\ UNCHANGED comments
        ELSE /\ comments' = ReplaceRow(comments, [comment EXCEPT !.deleted_at = << now >>])
             /\ resp' = base @@ [status |-> 204, detail |-> ""]
     /\ emitted' = {}
     /\ enqueued' = {}
     /\ UNCHANGED << celeryResults, inflight, unread, settings, users, tasks, tags, taskTags,
                     nextId, cache, blacklist, rateLimit, redisUp, now, dbVersion,
                     invalidatedUpTo, issued, revoked, rateLog, celeryQueue, manager,
                     closedSockets, delivered >>

\* ------------------------------------------------------------------ comment endpoints

\* PATCH /tasks/{task_id}/comments/{comment_id}: task_id is bound from the
\* path and not passed on
UpdateCommentEndpoint(task_id, comment_id, content, uid) ==
  /\ request' = [op |-> "update_comment", task_id |-> task_id, comment_id |-> comment_id]
  /\ UpdateComment(comment_id, content, uid)

\* DELETE /tasks/{task_id}/comments/{comment_id}
DeleteCommentEndpoint(task_id, comment_id, uid) ==
  /\ request' = [op |-> "delete_comment", task_id |-> task_id, comment_id |-> comment_id]
  /\ DeleteComment(comment_id, uid)

\* ------------------------------------------------------------------ tag service

\* str.strip() / str.lower() / str.upper() on tag names and colours
RECURSIVE LStrip(_)
LStrip(text) ==
  IF text # << >> /\ Head(text) = " " THEN LStrip(Tail(text)) ELSE text
Strip(text) == Reverse(LStrip(Reverse(LStrip(text))))
Upper(colour) ==
  IF colour = "#ff0000" THEN "#FF0000" ELSE IF colour = "#00ff00" THEN "#00FF00" ELSE colour

\* names and colours sent to the tag endpoints
TagNameInputs == { << "u" >>, << " ", "U", " " >>, << "b" >> }
TagColourInputs == { "#ff0000" }

\* the payload as sent, had TagBase no validators
TagAsSent(name, colour) == [name |-> name, color |-> colour]

\* TagBase.validate_name / validate_color: the payload the service receives
ValidateTag(name, colour) == [name |-> Lower(Strip(name)), color |-> Upper(colour)]

\* TagUpdate.validate_name / validate_color: absent (and empty) values pass unchanged
ValidateTagUpdate(name, colour) ==
  [name |-> IF name # NoText THEN Lower(Strip(name)) ELSE name,
   color |-> IF colour # None THEN Upper(colour) ELSE colour]

TagById(tag_id) ==
  IF \E g \in tags : g.id = tag_id
  THEN << CHOOSE g \in tags : g.id = tag_id >>
  ELSE << >>

\* Task.tags: the tags associated with a task (list(task.tags), as ids)
TagsOfTask(task_id) ==
  { r.tag_id : r \in { x \in BagToSet(taskTags) : x.task_id = task_id } }

\* TagService.create_tag on a validated payload
CreateTag(name, colour) ==
  LET tag_data == ValidateTag(name, colour)
      existing_tag == { g \in tags : Lower(g.name) = Lower(tag_data.name) }
      new_tag == [id |-> TagIds[nextId.tags + 1], name |-> Lower(Strip(tag_data.name)),
                  color |-> Upper(tag_data.color)]
  IN /\ nextId.tags < MaxTags
     /\ IF existing_tag # {}
        THEN /\ resp' = [op |-> "create_tag", status |-> 400, name |-> name,
                         before |-> tags, detail |-> "already exists"]
             /\ UNCHANGED << tags, nextId >>
        ELSE /\ tags' = tags \cup { new_tag }
             /\ nextId' = [nextId EXCEPT !.tags = @ + 1]
             /\ resp' = [op |-> "create_tag", status |-> 201, name |-> name,
                         before |-> tags, detail |-> "", body |-> new_tag]
     /\ emitted' = {}
     /\ enqueued' = {}
     /\ UNCHANGED << celeryResults, request, inflight, unread, settings, delivered,
                     closedSockets, manager, celeryQueue, users, blacklist, rateLimit, issued,
                     revoked, rateLog, tasks, comments, taskTags, cache, redisUp, now,
                     dbVersion, invalidatedUpTo >>

\* PATCH /tags/{id} bodies: name (NoText when absent) and colour (None when absent)
TagUpdateInputs ==
  { [name |-> << "U" >>, color |-> None],
    [name |-> << "b", " " >>, color |-> None],
    [name |-> << " " >>, color |-> "#ff0000"],
    [name |-> NoText, color |-> "#00ff00"] }

\* TagService.update_tag on a validated payload
UpdateTag(tag_id, name, colour) ==
  LET tag_update == ValidateTagUpdate(name, colour)
      found == TagById(tag_id)
      tag == found[1]
      renaming == tag_update.name # NoText /\ Lower(tag_update.name) # tag.name
      existing == { g \in tags : Lower(g.name) = Lower(tag_update.name) }
      updated == [tag EXCEPT
                    !.name = IF renaming THEN Lower(Strip(tag_update.name)) ELSE @,
                    !.color = IF tag_update.color # None
                              THEN Upper(tag_update.color) ELSE @]
      base == [op |-> "update_tag", tag_id |-> tag_id, name |-> name, before |-> tags]
  IN /\ IF found = << >>
        THEN /\ resp' = base @@ [status |-> 404, detail |-> "Tag not found"]
             /\ UNCHANGED tags
        ELSE IF renaming /\ existing # {}
        THEN /\ resp' = base @@ [status |-> 400, detail |-> "already exists"]
             /\ UNCHANGED tags
        ELSE /\ tags' = (tags \ { tag }) \cup { updated }
             /\ resp' = base @@ [status |-> 200, detail |-> "", body |-> updated]
     /\ emitted' = {}
     /\ enqueued' = {}
     /\ UNCHANGED << celeryResults, request, inflight, unread, settings, delivered,
                     closedSockets, manager, celeryQueue, users, blacklist, rateLimit, issued,
                     revoked, rateLog, tasks, comments, taskTags, nextId, cache, redisUp, now,
                     dbVersion, invalidatedUpTo >>

\* TagService.delete_tag; the tag's associations go with it (ON DELETE CASCADE)
DeleteTag(tag_id) ==
  /\ IF TagById(tag_id) = << >>
     THEN /\ resp' = [op |-> "delete_tag", status |-> 404,
                      detail |-> "Tag not found"]
          /\ UNCHANGED << tags, taskTags >>
     ELSE /\ tags' = { g \in tags : g.id # tag_id }
          /\ taskTags' = RowsWithoutTag(tag_id)
          /\ resp' = [op |-> "delete_tag", status |-> 204, detail |-> ""]
  /\ emitted' = {}
  /\ enqueued' = {}
  /\ UNCHANGED << celeryResults, request, inflight, unread, settings, delivered, closedSockets,
                  manager, celeryQueue, users, blacklist, rateLimit, issued, revoked, rateLog,
                  tasks, comments, nextId, cache, redisUp, now, dbVersion, invalidatedUpTo >>

\* the checks add_tag_to_task and remove_tag_from_task share: task lookup,
\* creator-or-admin check, tag lookup
TagOpGate(task_id, tag_id, uid, verb) ==
  LET found == TaskById(task_id)
  IN IF found = << >> THEN [status |-> 404, detail |-> "Task not found"]
     ELSE IF IsMember(UserById(uid)) /\ found[1].created_by # uid
     THEN [status |-> 403, detail |-> verb]
     ELSE IF TagById(tag_id) = << >> THEN [status |-> 404, detail |-> "Tag not found"]
     ELSE [status |-> 200, detail |-> ""]

\* add_tag_to_task with the membership test left out
TagNeverInExisting(tag_id, existing_tags) == FALSE

\* `tag in existing_tags` of add_tag_to_task
TagInExisting(tag_id, existing_tags) == tag_id \in existing_tags

\* TagService.add_tag_to_task
AddTagToTask(task_id, tag_id, uid) ==
  LET gate == TagOpGate(task_id, tag_id, uid, "Not authorized to add tags to this task")
      existing_tags == TagsOfTask(task_id)
      base == [op |-> "add_tag_to_task", user |-> uid, task_id |-> task_id,
               tag_id |-> tag_id,
               attachedBefore |-> CopiesIn(AssociationRow(task_id, tag_id), taskTags)]
  IN /\ IF gate.status # 200
        THEN /\ resp' = base @@ gate
             /\ UNCHANGED taskTags
        ELSE IF TagInExisting(tag_id, existing_tags)
        THEN /\ resp' = base @@ [status |-> 400, detail |-> "Tag already added to this task"]
             /\ UNCHANGED taskTags
        ELSE /\ taskTags' = taskTags (+) SetToBag({ AssociationRow(task_id, tag_id) })
             /\ resp' = base @@ [status |-> 200, detail |-> ""]
     /\ emitted' = {}
     /\ enqueued' = {}
     /\ UNCHANGED << celeryResults, request, inflight, unread, settings, delivered,
                     closedSockets, manager, celeryQueue, users, blacklist, rateLimit, issued,
                     revoked, rateLog, tasks, comments, tags, nextId, cache, redisUp, now,
                     dbVersion, invalidatedUpTo >>

\* TagService.remove_tag_from_task
RemoveTagFromTask(task_id, tag_id, uid) ==
  LET gate == TagOpGate(task_id, tag_id, uid, "Not authorized to remove tags from this task")
      existing_tags == TagsOfTask(task_id)
      base == [op |-> "remove_tag_from_task", user |-> uid, task_id |-> task_id,
               tag_id |-> tag_id,
               attachedBefore |-> CopiesIn(AssociationRow(task_id, tag_id), taskTags)]
  IN /\ IF gate.status # 200
        THEN /\ resp' = base @@ gate
             /\ UNCHANGED taskTags
        ELSE IF tag_id \notin existing_tags
        THEN /\ resp' = base @@ [status |-> 400, detail |-> "Tag not found on this task"]
             /\ UNCHANGED taskTags
        ELSE /\ taskTags' = taskTags (-) SetToBag({ AssociationRow(task_id, tag_id) })
             /\ resp' = base @@ [status |-> 204, detail |-> ""]
     /\ emitted' = {}
     /\ enqueued' = {}
     /\ UNCHANGED << celeryResults, request, inflight, unread, settings, delivered,
                     closedSockets, manager, celeryQueue, users, blacklist, rateLimit, issued,
                     revoked, rateLog, tasks, comments, tags, nextId, cache, redisUp, now,
                     dbVersion, invalidatedUpTo >>

\* ------------------------------------------------------------------ security primitives

\* whole seconds of a clock reading (timegm(...utctimetuple()) drops the fraction)
Seconds(t) == t \div TicksPerSecond

\* pwd_context.hash / pwd_context.verify
HashPassword(password) == [bcrypt |-> password]
VerifyPassword(plain_password, hashed_password) == hashed_password.bcrypt = plain_password

\* create_access_token / create_refresh_token: the claims of the signed token;
\* jwt.encode writes the datetime claims exp and iat as whole seconds
CreateAccessToken(sub) ==
  [sub |-> sub, type |-> "access", iat |-> Seconds(now),
   exp |-> Seconds(now + AccessTokenExpireSeconds * TicksPerSecond)]

CreateRefreshToken(sub) ==
  [sub |-> sub, type |-> "refresh", iat |-> Seconds(now),
   exp |-> Seconds(now + RefreshTokenExpireSeconds * TicksPerSecond)]

\* jwt.decode accepts a token until the clock's whole second passes exp
\* (ExpiredSignatureError is raised when exp < now)
TokenAccepted(token) == ~(token.exp < Seconds(now))

\* decode_token: << >> stands for a raised JWTError, << payload >> for success
DecodeToken(token) == IF TokenAccepted(token) THEN << token >> ELSE << >>

\* ------------------------------------------------------------------ token blacklist

\* TokenBlacklistService._hash_token and the key built from it
BlacklistKey(token) == << "blacklist", "token", [sha256 |-> token] >>

\* expiry_seconds chosen by blacklist_token for a token type
BlacklistTtl(token_type) ==
  IF token_type = "access" THEN AccessTokenExpireSeconds ELSE RefreshTokenExpireSeconds

\* TokenBlacklistService.blacklist_token: the keyspace after the call
\* (setex counts the TTL from the moment of the call)
BlacklistToken(token, token_type) ==
  IF ~redisUp THEN blacklist
  ELSE LET key == BlacklistKey(token)
           entry == [value |-> now,
                     expireAt |-> now + BlacklistTtl(token_type) * TicksPerSecond]
       IN [ k \in DOMAIN blacklist \cup {key} |-> IF k = key THEN entry ELSE blacklist[k] ]

\* every token counts as blacklisted while the store does not answer
IsTokenBlacklistedFailClosed(token) ==
  \/ ~redisUp
  \/ /\ BlacklistKey(token) \in DOMAIN blacklist
     /\ now < blacklist[BlacklistKey(token)].expireAt

\* TokenBlacklistService.is_token_blacklisted (False when the store is unreachable)
IsTokenBlacklisted(token) ==
  /\ redisUp
  /\ BlacklistKey(token) \in DOMAIN blacklist
  /\ now < blacklist[BlacklistKey(token)].expireAt

\* ------------------------------------------------------------------ rate limiter

\* window_seconds on the clock's scale
WindowTicks == WindowSeconds * TicksPerSecond

\* f"rate_limit:{user_id}:{endpoint}"
RateKey(user_id, endpoint) == << "rate_limit", user_id, endpoint >>

\* members of the sorted set under a key (none once the key has expired)
ZMembers(key) ==
  IF key \in DOMAIN rateLimit /\ now < rateLimit[key].expireAt
  THEN rateLimit[key].members
  ELSE {}

\* zremrangebyscore(key, 0, window_start): both ends inclusive
ZRemRangeByScore(members, lo, hi) == { m \in members : ~(lo <= m.score /\ m.score <= hi) }

\* the smallest score of a non-empty sorted set (zrange(key, 0, 0, withscores=True))
OldestScore(members) ==
  CHOOSE x \in { m.score : m \in members } : \A m \in members : x <= m.score

\* zadd(key, {str(current_time): current_time}); a member already present
\* keeps its place and takes the new score
ZAdd(members, member, score) ==
  { m \in members : m.member # member } \cup { [member |-> member, score |-> score] }

\* the keyspace with the sorted set of a key replaced (an empty set removes the key)
WithZSet(key, members, expireAt) ==
  IF members = {}
  THEN [ k \in DOMAIN rateLimit \ {key} |-> rateLimit[k] ]
  ELSE [ k \in DOMAIN rateLimit \cup {key} |->
           IF k = key THEN [members |-> members, expireAt |-> expireAt] ELSE rateLimit[k] ]

\* `request_count > limit` in place of `request_count >= limit`
OverLimitStrict(request_count, limit) == request_count > limit

\* `if request_count >= limit`
OverLimit(request_count, limit) == request_count >= limit

\* RateLimiter.check_rate_limit with the configured limit: whether the request
\* is allowed, the Retry-After value when it is not, and the keyspace afterwards
CheckRateLimit(user_id, endpoint) ==
  LET key == RateKey(user_id, endpoint)
      current_time == now
      window_start == current_time - WindowTicks
      kept == ZRemRangeByScore(ZMembers(key), 0, window_start)
      request_count == Cardinality(kept)
      keptExpiry == IF key \in DOMAIN rateLimit THEN rateLimit[key].expireAt ELSE 0
  IN IF ~redisUp
     THEN [allowed |-> TRUE, retry_after |-> 0, store |-> rateLimit]
     ELSE IF OverLimit(request_count, RateLimitPerMinute)
     THEN [allowed |-> FALSE,
           retry_after |-> IF kept # {}
                           THEN (OldestScore(kept) + WindowTicks - current_time)
                                   \div TicksPerSecond
                           ELSE WindowSeconds,
           store |-> WithZSet(key, kept, keptExpiry)]
     ELSE [allowed |-> TRUE, retry_after |-> 0,
           store |-> WithZSet(key, ZAdd(kept, [str |-> current_time], current_time),
                              current_time + WindowTicks)]

\* the record of one check_rate_limit call
RateLogEntry(user_id, endpoint, allowed) ==
  [user |-> user_id, endpoint |-> endpoint, at |-> now, allowed |-> allowed,
   storeUp |-> redisUp]

\* a request that reaches RateLimiter.check_rate_limit for an authenticated user
\* on an endpoint (get_current_user calls it with endpoint "api")
RateLimitedRequest(user_id, endpoint) ==
  LET check == CheckRateLimit(user_id, endpoint)
  IN /\ Len(rateLog) < MaxRateCalls
     /\ rateLimit' = check.store
     /\ rateLog' = Append(rateLog, RateLogEntry(user_id, endpoint, check.allowed))
     /\ resp' = [op |-> "check_rate_limit", user |-> user_id, endpoint |-> endpoint,
                 status |-> IF check.allowed THEN 200 ELSE 429,
                 retry_after |-> check.retry_after, at |-> now]
     /\ emitted' = {}
     /\ enqueued' = {}
     /\ UNCHANGED << celeryResults, request, inflight, unread, settings, delivered,
                     closedSockets, manager, celeryQueue, users, tasks, comments, tags,
                     taskTags, nextId, cache, blacklist, redisUp, now, dbVersion,
                     invalidatedUpTo, issued, revoked >>

\* check_rate_limit calls begun so far
CallsBegun == Len(rateLog) + Cardinality(DOMAIN inflight)

\* the calls under way without call c / with call c at its next step
WithoutCall(c) == [ k \in DOMAIN inflight \ { c } |-> inflight[k] ]

\* a check_rate_limit call returns True or raises the 429
CallReturns(c, allowed, retry_after) ==
  /\ inflight' = WithoutCall(c)
  /\ rateLog' = Append(rateLog, [user |-> inflight[c].user,
                                  endpoint |-> inflight[c].endpoint,
                                  at |-> inflight[c].current_time, allowed |-> allowed,
                                  storeUp |-> redisUp])
  /\ resp' = [op |-> "check_rate_limit", user |-> inflight[c].user,
              endpoint |-> inflight[c].endpoint,
              status |-> IF allowed THEN 200 ELSE 429, retry_after |-> retry_after,
              at |-> inflight[c].current_time]

\* check_rate_limit up to its first Redis command: get_redis, the key, the clock
BeginCheck(user_id, endpoint) ==
  /\ CallsBegun < MaxRaceCalls
  /\ redisUp
  /\ inflight' = (CallsBegun + 1 :> [user |-> user_id, endpoint |-> endpoint,
                                      current_time |-> now, pc |-> "zremrangebyscore"])
                     @@ inflight
  /\ UNCHANGED << celeryResults, request, unread, settings, delivered, closedSockets, manager,
                  celeryQueue, users, tasks, comments, tags, taskTags, nextId, cache, blacklist,
                  rateLimit, redisUp, now, dbVersion, invalidatedUpTo, resp, emitted, enqueued,
                  issued, revoked, rateLog >>

\* await redis.zremrangebyscore(key, 0, window_start); a command that raises
\* ends the call with True
CheckPrune(c) ==
  LET call == inflight[c]
      key == RateKey(call.user, call.endpoint)
      keptExpiry == IF key \in DOMAIN rateLimit THEN rateLimit[key].expireAt ELSE 0
  IN /\ call.pc = "zremrangebyscore"
     /\ IF redisUp
        THEN /\ rateLimit' = WithZSet(key, ZRemRangeByScore(ZMembers(key), 0,
                                                            call.current_time - WindowTicks),
                                      keptExpiry)
             /\ inflight' = [inflight EXCEPT ![c].pc = "zcard"]
             /\ UNCHANGED << rateLog, resp >>
        ELSE /\ CallReturns(c, TRUE, 0)
             /\ UNCHANGED rateLimit
     /\ UNCHANGED << celeryResults, request, unread, settings, delivered, closedSockets,
                     manager, celeryQueue, users, tasks, comments, tags, taskTags, nextId,
                     cache, blacklist, redisUp, now, dbVersion, invalidatedUpTo, emitted,
                     enqueued, issued, revoked >>

\* await redis.zcard(key), and on the rejection path the zrange and the raise
CheckCount(c) ==
  LET call == inflight[c]
      members == ZMembers(RateKey(call.user, call.endpoint))
  IN /\ call.pc = "zcard"
     /\ IF ~redisUp THEN CallReturns(c, TRUE, 0)
        ELSE IF OverLimit(Cardinality(members), RateLimitPerMinute)
        THEN CallReturns(c, FALSE,
                         IF members # {}
                         THEN (OldestScore(members) + WindowTicks - call.current_time)
                                 \div TicksPerSecond
                         ELSE WindowSeconds)
        ELSE /\ inflight' = [inflight EXCEPT ![c].pc = "zadd"]
             /\ UNCHANGED << rateLog, resp >>
     /\ UNCHANGED << celeryResults, request, unread, settings, delivered, closedSockets,
                     manager, celeryQueue, users, tasks, comments, tags, taskTags, nextId,
                     cache, blacklist, rateLimit, redisUp, now, dbVersion, invalidatedUpTo,
                     emitted, enqueued, issued, revoked >>

\* await redis.zadd(key, {str(current_time): current_time}) and
\* await redis.expire(key, window_seconds), then return True
CheckAdd(c) ==
  LET call == inflight[c]
      key == RateKey(call.user, call.endpoint)
  IN /\ call.pc = "zadd"
     /\ rateLimit' =
          IF redisUp
          THEN WithZSet(key, ZAdd(ZMembers(key), [str |-> call.current_time],
                                  call.current_time),
                        now + WindowTicks)
          ELSE rateLimit
     /\ CallReturns(c, TRUE, 0)
     /\ UNCHANGED << celeryResults, request, unread, settings, delivered, closedSockets,
                     manager, celeryQueue, users, tasks, comments, tags, taskTags, nextId,
                     cache, blacklist, redisUp, now, dbVersion, invalidatedUpTo, emitted,
                     enqueued, issued, revoked >>

\* RateLimiter.get_rate_limit_info with the configured limit: the dict it
\* returns and the keyspace afterwards
RateLimitInfo(user_id, endpoint) ==
  LET key == RateKey(user_id, endpoint)
      current_time == now
      window_start == current_time - WindowTicks
      kept == ZRemRangeByScore(ZMembers(key), 0, window_start)
      request_count == Cardinality(kept)
      keptExpiry == IF key \in DOMAIN rateLimit THEN rateLimit[key].expireAt ELSE 0
  IN IF ~redisUp
     THEN [info |-> [limit |-> RateLimitPerMinute, remaining |-> RateLimitPerMinute,
                     reset_at |-> Null],
           store |-> rateLimit]
     ELSE [info |-> [limit |-> RateLimitPerMinute,
                     remaining |-> IF RateLimitPerMinute - request_count > 0
                                   THEN RateLimitPerMinute - request_count ELSE 0,
                     reset_at |-> IF kept # {} THEN << OldestScore(kept) + WindowTicks >>
                                  ELSE Null,
                     used |-> request_count],
           store |-> WithZSet(key, kept, keptExpiry)]

\* GET /rate-limit/status once get_current_user has let the request through
GetRateLimitInfo(user_id, endpoint) ==
  LET out == RateLimitInfo(user_id, endpoint)
  IN /\ rateLimit' = out.store
     /\ resp' = [op |-> "get_rate_limit_info", user |-> user_id, endpoint |-> endpoint,
                 status |-> 200, body |-> out.info, at |-> now]
     /\ emitted' = {}
     /\ enqueued' = {}
     /\ UNCHANGED << celeryResults, request, inflight, unread, settings, delivered,
                     closedSockets, manager, celeryQueue, users, tasks, comments, tags,
                     taskTags, nextId, cache, blacklist, redisUp, now, dbVersion,
                     invalidatedUpTo, issued, revoked, rateLog >>

\* ------------------------------------------------------------------ auth service

\* register payloads: e-mail, password, name and the optional role field
RegisterInputs ==
  { [email |-> e, password |-> "Passw0rd", full_name |-> "New", role |-> r] :
      e \in { "a@x.com", "new@x.com", "c@x.com" }, r \in { None, ADMIN } }

\* login payloads: a registered and an unknown e-mail, a right and a wrong password
LoginInputs ==
  { [email |-> e, password |-> pw] :
      e \in { "a@x.com", "nobody@x.com" }, pw \in { "Secret12", "Wrong123" } }

UserByEmail(email) ==
  IF \E u \in users : u.email = email
  THEN << CHOOSE u \in users : u.email = email >>
  ELSE << >>

\* the role register_user would store if it copied the payload's role
RoleFromPayload(requested) == IF requested = None THEN MEMBER ELSE requested

\* `role = UserRole.MEMBER` in register_user
RegisteredRole(requested) == MEMBER

\* the body of register_user's try block: what it raises or returns
RegisterTry(user_data) ==
  IF UserByEmail(user_data.email) # << >>
  THEN [status |-> 400, detail |-> "Email already registered"]
  ELSE [status |-> 201, detail |-> ""]

\* `except Exception` around that body: whatever was raised inside, the
\* HTTPException included, is answered with a rollback and a 500
RegisterExcept(tried) ==
  IF tried.status # 201
  THEN [status |-> 500, detail |-> "Failed to create user"]
  ELSE tried

\* AuthService.register_user behind POST /auth/register
RegisterUser(user_data) ==
  LET outcome == RegisterExcept(RegisterTry(user_data))
      new_user == [id |-> UserIds[nextId.users + 1], email |-> user_data.email,
                   password_hash |-> HashPassword(user_data.password),
                   full_name |-> user_data.full_name,
                   role |-> RegisteredRole(user_data.role), is_active |-> TRUE]
      base == [op |-> "register", email |-> user_data.email,
               requested_role |-> user_data.role, before |-> users]
  IN /\ nextId.users < MaxUsers
     /\ IF outcome.status = 201
        THEN /\ users' = users \cup { new_user }
             /\ nextId' = [nextId EXCEPT !.users = @ + 1]
             /\ enqueued' = { [job |-> "send_welcome_email", user_email |-> new_user.email,
                               user_name |-> new_user.full_name] }
             /\ resp' = base @@ outcome @@ [body |-> new_user]
        ELSE /\ enqueued' = {}
             /\ resp' = base @@ outcome
             /\ UNCHANGED << users, nextId >>
     /\ emitted' = {}
     /\ UNCHANGED << celeryResults, request, inflight, unread, settings, delivered,
                     closedSockets, manager, celeryQueue, tasks, comments, tags, taskTags,
                     cache, blacklist, rateLimit, redisUp, now, dbVersion, invalidatedUpTo,
                     issued, revoked, rateLog >>

\* AuthService.authenticate_user: the raised error or the authenticated user
AuthenticateUser(login_data) ==
  LET found == UserByEmail(login_data.email)
  IN IF found = << >>
     THEN [status |-> 401, detail |-> "incorrect email or password"]
     ELSE IF ~VerifyPassword(login_data.password, found[1].password_hash)
     THEN [status |-> 401, detail |-> "Incorrect email or password"]
     ELSE IF ~found[1].is_active
     THEN [status |-> 403, detail |-> "account is inactive"]
     ELSE [status |-> 200, detail |-> "", user |-> found[1].id]

\* AuthService.create_tokens
CreateTokens(user_id) ==
  [access_token |-> CreateAccessToken(user_id),
   refresh_token |-> CreateRefreshToken(user_id), token_type |-> "bearer"]

\* POST /auth/login
Login(login_data) ==
  LET outcome == AuthenticateUser(login_data)
  IN /\ IF outcome.status = 200
        THEN LET tokens == CreateTokens(outcome.user)
             IN /\ issued' = issued \cup { tokens.access_token, tokens.refresh_token }
                /\ resp' = [op |-> "login", email |-> login_data.email, status |-> 200,
                            detail |-> "", body |-> tokens]
        ELSE /\ resp' = [op |-> "login", email |-> login_data.email,
                         status |-> outcome.status, detail |-> outcome.detail]
             /\ UNCHANGED issued
     /\ emitted' = {}
     /\ enqueued' = {}
     /\ UNCHANGED << celeryResults, request, inflight, unread, settings, delivered,
                     closedSockets, manager, celeryQueue, users, tasks, comments, tags,
                     taskTags, nextId, cache, blacklist, rateLimit, redisUp, now, dbVersion,
                     invalidatedUpTo, revoked, rateLog >>

\* POST /auth/refresh
RefreshToken(refresh_token) ==
  LET payload == DecodeToken(refresh_token)
      base == [op |-> "refresh", token |-> refresh_token, at |-> now, storeUp |-> redisUp,
               wasRevoked |-> refresh_token \in revoked]
      new_access_token == CreateAccessToken(refresh_token.sub)
      Rejected(detail) ==
        /\ resp' = base @@ [status |-> 401, detail |-> detail]
        /\ UNCHANGED issued
  IN /\ IF IsTokenBlacklisted(refresh_token)
        THEN Rejected("Refresh token has been revoked")
        ELSE IF payload = << >>
        THEN Rejected("Invalid or expired refresh token")
        ELSE IF payload[1].type # "refresh"
        THEN Rejected("Invalid refresh token")
        ELSE IF ~UserExists(payload[1].sub) \/ ~UserById(payload[1].sub).is_active
        THEN Rejected("User not found or inactive")
        ELSE /\ issued' = issued \cup { new_access_token }
             /\ resp' = base @@ [status |-> 200, detail |-> "",
                                 body |-> [access_token |-> new_access_token,
                                           token_type |-> "bearer"]]
     /\ emitted' = {}
     /\ enqueued' = {}
     /\ UNCHANGED << celeryResults, request, inflight, unread, settings, delivered,
                     closedSockets, manager, celeryQueue, users, tasks, comments, tags,
                     taskTags, nextId, cache, blacklist, rateLimit, redisUp, now, dbVersion,
                     invalidatedUpTo, revoked, rateLog >>

\* get_current_user: the error it raises or the user it resolves, and the
\* rate-limit check it makes once the user is resolved
GetCurrentUser(token) ==
  IF IsTokenBlacklisted(token)
  THEN [status |-> 401, detail |-> "Token has been revoked", checked |-> FALSE]
  ELSE IF DecodeToken(token) = << >>
  THEN [status |-> 401, detail |-> "could not validate credentials", checked |-> FALSE]
  ELSE IF token.type # "access"
  THEN [status |-> 401, detail |-> "Invalid token type", checked |-> FALSE]
  ELSE IF ~UserExists(token.sub)
  THEN [status |-> 401, detail |-> "could not validate credentials", checked |-> FALSE]
  ELSE LET check == CheckRateLimit(token.sub, "api")
       IN [status |-> IF check.allowed THEN 200 ELSE 429,
           detail |-> IF check.allowed THEN "" ELSE "Rate limit exceeded",
           checked |-> TRUE, check |-> check, user |-> token.sub]

\* POST /auth/logout with the bearer token and the optional refresh token of
\* the body (<< >> when absent, << token >> when sent)
Logout(token, refresh_token) ==
  LET current == GetCurrentUser(token)
      base == [op |-> "logout", token |-> token, refresh_token |-> refresh_token,
               at |-> now, storeUp |-> redisUp]
  IN /\ current.checked => Len(rateLog) < MaxRateCalls
     /\ IF current.checked
        THEN /\ rateLimit' = current.check.store
             /\ rateLog' = Append(rateLog,
                                  RateLogEntry(current.user, "api", current.check.allowed))
        ELSE UNCHANGED << rateLimit, rateLog >>
     /\ IF current.status # 200
        THEN /\ resp' = base @@ [status |-> current.status, detail |-> current.detail]
             /\ UNCHANGED << blacklist, revoked >>
        ELSE /\ resp' = base @@ [status |-> 204, detail |-> ""]
             /\ IF refresh_token # << >>
                THEN /\ blacklist' = BlacklistToken(refresh_token[1], "refresh")
                     /\ revoked' = IF redisUp THEN revoked \cup { refresh_token[1] }
                                   ELSE revoked
                ELSE UNCHANGED << blacklist, revoked >>
     /\ emitted' = {}
     /\ enqueued' = {}
     /\ UNCHANGED << celeryResults, request, inflight, unread, settings, delivered,
                     closedSockets, manager, celeryQueue, users, tasks, comments, tags,
                     taskTags, nextId, cache, redisUp, now, dbVersion, invalidatedUpTo, issued >>

\* ------------------------------------------------------------------ websocket endpoint

\* the type claim is not looked at
GetCurrentUserWsAnyType(token) ==
  IF DecodeToken(token) = << >> THEN << >>
  ELSE IF token.sub = None THEN << >>
  ELSE << token.sub >>

\* get_current_user_ws: << >> when the socket is closed with 1008 and
\* WebSocketDisconnect raised, << user_id >> otherwise
GetCurrentUserWs(token) ==
  IF DecodeToken(token) = << >> THEN << >>
  ELSE IF token.sub = None \/ token.type # "access" THEN << >>
  ELSE << token.sub >>

\* every websocket the manager holds
ConnectedSockets ==
  UNION { manager.active_connections[u] : u \in DOMAIN manager.active_connections }

\* websockets whose endpoint loop is receiving
ReceivingSockets == ConnectedSockets \ closedSockets

\* the handler's changes to the manager and the messages it sent
ManagerBecomes(h) ==
  /\ manager' = [active_connections |-> h.active_connections,
                 task_viewers |-> h.task_viewers]
  /\ delivered' = h.delivered

\* GET /ws?token=...: authentication, then manager.connect
WebsocketEndpoint(token) ==
  LET user == GetCurrentUserWs(token)
      websocket == [id |-> WebSocketIds[nextId.sockets + 1], user_id |-> user[1]]
  IN /\ nextId.sockets < MaxSockets
     /\ IF user = << >>
        THEN /\ resp' = [op |-> "websocket_endpoint", token |-> token, status |-> 1008]
             /\ delivered' = {}
             /\ UNCHANGED << manager, nextId >>
        ELSE /\ resp' = [op |-> "websocket_endpoint", token |-> token, status |-> 101,
                         user |-> user[1], websocket |-> websocket]
             /\ nextId' = [nextId EXCEPT !.sockets = @ + 1]
             /\ ManagerBecomes(Connect(Hub, websocket, user[1]))
     /\ emitted' = {}
     /\ enqueued' = {}
     /\ UNCHANGED << celeryResults, request, inflight, unread, settings, users, tasks, comments,
                     tags, taskTags, cache, blacklist, rateLimit, redisUp, now, dbVersion,
                     invalidatedUpTo, issued, revoked, rateLog, celeryQueue, closedSockets >>

\* a {"type": "join_task", "task_id": ...} message received on a websocket:
\* sent by a peer that is there, or left unread by one that went away
WsJoinTask(websocket, task_id) ==
  LET user_id == websocket.user_id
      frame == [websocket |-> websocket, task_id |-> task_id]
      joined == JoinTaskView(Hub, user_id, task_id)
      message == [type |-> "task_viewer_joined", task_id |-> task_id, user_id |-> user_id,
                  viewers |-> ViewersOf(joined.task_viewers, task_id)]
  IN /\ \/ websocket \in ReceivingSockets /\ UNCHANGED unread
        \/ frame \in unread /\ unread' = unread \ { frame }
     /\ ManagerBecomes(BroadcastToTaskViewers(joined, task_id, message))
     /\ resp' = [op |-> "join_task", user |-> user_id, task_id |-> task_id, status |-> 101]
     /\ emitted' = {}
     /\ enqueued' = {}
     /\ UNCHANGED << celeryResults, request, inflight, settings, users, tasks, comments, tags,
                     taskTags, nextId, cache, blacklist, rateLimit, redisUp, now, dbVersion,
                     invalidatedUpTo, issued, revoked, rateLog, celeryQueue, closedSockets >>

\* a {"type": "leave_task", "task_id": ...} message received on a websocket
WsLeaveTask(websocket, task_id) ==
  LET user_id == websocket.user_id
      left == LeaveTaskView(Hub, user_id, task_id)
      message == [type |-> "task_viewer_left", task_id |-> task_id, user_id |-> user_id,
                  viewers |-> ViewersOf(left.task_viewers, task_id)]
  IN /\ websocket \in ReceivingSockets
     /\ ManagerBecomes(BroadcastToTaskViewers(left, task_id, message))
     /\ resp' = [op |-> "leave_task", user |-> user_id, task_id |-> task_id, status |-> 101]
     /\ emitted' = {}
     /\ enqueued' = {}
     /\ UNCHANGED << celeryResults, request, inflight, unread, settings, users, tasks, comments,
                     tags, taskTags, nextId, cache, blacklist, rateLimit, redisUp, now,
                     dbVersion, invalidatedUpTo, issued, revoked, rateLog, celeryQueue,
                     closedSockets >>

\* a ping, get_online_users or unknown message: the answer goes to the sender
WsReply(websocket, answer) ==
  LET user_id == websocket.user_id
  IN /\ websocket \in ReceivingSockets
     /\ ManagerBecomes(SendPersonalMessage(Hub, user_id, [type |-> answer]))
     /\ resp' = [op |-> answer, user |-> user_id, status |-> 101]
     /\ emitted' = {}
     /\ enqueued' = {}
     /\ UNCHANGED << celeryResults, request, inflight, unread, settings, users, tasks, comments,
                     tags, taskTags, nextId, cache, blacklist, rateLimit, redisUp, now,
                     dbVersion, invalidatedUpTo, issued, revoked, rateLog, celeryQueue,
                     closedSockets >>

\* the peer of a websocket goes away
PeerCloses(websocket) ==
  /\ websocket \in ReceivingSockets
  /\ closedSockets' = closedSockets \cup { websocket }
  /\ UNCHANGED << celeryResults, request, inflight, unread, settings, users, tasks, comments,
                  tags, taskTags, nextId, cache, blacklist, rateLimit, redisUp, now, dbVersion,
                  invalidatedUpTo, resp, emitted, enqueued, issued, revoked, rateLog,
                  celeryQueue, manager, delivered >>

\* the peer of a websocket sends a join_task frame and goes away before the
\* endpoint has read it
PeerClosesUnread(websocket, task_id) ==
  /\ websocket \in ReceivingSockets
  /\ closedSockets' = closedSockets \cup { websocket }
  /\ unread' = unread \cup { [websocket |-> websocket, task_id |-> task_id] }
  /\ UNCHANGED << celeryResults, request, inflight, settings, users, tasks, comments, tags,
                  taskTags, nextId, cache, blacklist, rateLimit, redisUp, now, dbVersion,
                  invalidatedUpTo, resp, emitted, enqueued, issued, revoked, rateLog,
                  celeryQueue, manager, delivered >>

\* receive_json raises WebSocketDisconnect once the frames received before
\* the peer went away are read: manager.disconnect, then the offline status is
\* broadcast and the endpoint returns
WsDisconnect(websocket) ==
  LET user_id == websocket.user_id
  IN /\ websocket \in closedSockets
     /\ \A frame \in unread : frame.websocket # websocket
     /\ closedSockets' = closedSockets \ { websocket }
     /\ ManagerBecomes(BroadcastUserStatus(Disconnect(Hub, websocket, user_id), user_id,
                                           "offline"))
     /\ resp' = [op |-> "disconnect", user |-> user_id, status |-> 1000]
     /\ emitted' = {}
     /\ enqueued' = {}
     /\ UNCHANGED << celeryResults, request, inflight, unread, settings, users, tasks, comments,
                     tags, taskTags, nextId, cache, blacklist, rateLimit, redisUp, now,
                     dbVersion, invalidatedUpTo, issued, revoked, rateLog, celeryQueue >>

\* a frame that is not a JSON object arrives: receive_json or data.get raises,
\* `except Exception` logs it, calls manager.disconnect and the endpoint returns
WsError(websocket) ==
  LET user_id == websocket.user_id
  IN /\ websocket \in ReceivingSockets
     /\ ManagerBecomes(Disconnect(Hub, websocket, user_id))
     /\ resp' = [op |-> "error", user |-> user_id, status |-> 1011]
     /\ emitted' = {}
     /\ enqueued' = {}
     /\ UNCHANGED << celeryResults, request, inflight, unread, settings, users, tasks, comments,
                     tags, taskTags, nextId, cache, blacklist, rateLimit, redisUp, now,
                     dbVersion, invalidatedUpTo, issued, revoked, rateLog, celeryQueue,
                     closedSockets >>

\* ------------------------------------------------------------------ user service

\* PATCH /users/me bodies; None marks a field that was not sent
UpdateUserInputs ==
  { [email |-> "b@x.com", full_name |-> None, password |-> None],
    [email |-> "moved@x.com", full_name |-> None, password |-> None],
    [email |-> None, full_name |-> "Renamed", password |-> "Changed1"] }

\* UserService.update_user: an error raised inside the try block, the
\* HTTPException for a taken e-mail included, is re-raised as ValueError after
\* a rollback and reaches the client as a 500
UpdateUser(uid, data) ==
  LET user == UserById(uid)
      conflict == data.email # None /\ data.email # user.email
                  /\ UserByEmail(data.email) # << >>
      updated == [user EXCEPT
                    !.email = IF data.email # None /\ data.email # user.email
                              THEN data.email ELSE @,
                    !.password_hash = IF data.password # None
                                      THEN HashPassword(data.password) ELSE @,
                    !.full_name = IF data.full_name # None THEN data.full_name ELSE @]
      base == [op |-> "update_user", user |-> uid, data |-> data, before |-> users]
  IN /\ IF conflict
        THEN /\ resp' = base @@ [status |-> 500, detail |-> "ValueError"]
             /\ UNCHANGED users
        ELSE /\ users' = (users \ { user }) \cup { updated }
             /\ resp' = base @@ [status |-> 200, detail |-> "", body |-> updated]
     /\ emitted' = {}
     /\ enqueued' = {}
     /\ UNCHANGED << celeryResults, request, inflight, unread, settings, delivered,
                     closedSockets, manager, celeryQueue, tasks, comments, tags, taskTags,
                     nextId, cache, blacklist, rateLimit, redisUp, now, dbVersion,
                     invalidatedUpTo, issued, revoked, rateLog >>

\* ------------------------------------------------------------------ error middleware

\* request ids add_request_id_middleware may have put on the request state
RequestIds == { "r1", "r2" }

\* the last handler raised an exception that is not an HTTPException
UnhandledException(r) ==
  /\ r.status = 500
  /\ "detail" \in DOMAIN r
  /\ r.detail \in { "ValueError", "UnboundLocalError" }

\* the detail field of the 500 body
ErrorDetail(s, e) == IF s.debug THEN e ELSE "An unexpected error occurred"

\* log_errors_middleware: call_next raised; the 500 response is built
LogErrorsMiddleware(request_id) ==
  /\ UnhandledException(resp)
  /\ resp' = [op |-> "log_errors_middleware", status |-> 500, exception |-> resp.detail,
              content |-> [error |-> "Internal server error",
                           detail |-> ErrorDetail(settings, resp.detail),
                           request_id |-> request_id]]
  /\ UNCHANGED << celeryResults, request, inflight, unread, settings, delivered, closedSockets,
                  manager, celeryQueue, users, tasks, comments, tags, taskTags, nextId, cache,
                  blacklist, rateLimit, redisUp, now, dbVersion, invalidatedUpTo, emitted,
                  enqueued, issued, revoked, rateLog >>

\* ------------------------------------------------------------------ environment

\* Redis drops the keys whose TTL has run out by clock reading t
Unexpired(space, t) == [ k \in { q \in DOMAIN space : t < space[q].expireAt } |-> space[k] ]

\* the clock advances one tick, up to a last tick
Advance(last) ==
  /\ now < last
  /\ now' = now + 1
  /\ cache' = [ k \in { q \in DOMAIN cache : Live(cache, q, now + 1) } |-> cache[k] ]
  /\ blacklist' = Unexpired(blacklist, now + 1)
  /\ rateLimit' = Unexpired(rateLimit, now + 1)
  /\ UNCHANGED << celeryResults, request, inflight, unread, settings, delivered, closedSockets,
                  manager, celeryQueue, users, tasks, comments, tags, taskTags, nextId, redisUp,
                  dbVersion, invalidatedUpTo, resp, emitted, enqueued, issued, revoked, rateLog >>

\* time passes in the cache specification
Tick == Advance(MaxTime)

\* time passes in the token specification
ClockTick == Advance(MaxClock)

\* time passes in the rate-limit specification
RateTick == Advance(MaxRateClock)

\* the Redis store becomes unreachable / reachable again (its data survives)
StoreFails ==
  /\ redisUp
  /\ redisUp' = FALSE
  /\ UNCHANGED << celeryResults, request, inflight, unread, settings, delivered, closedSockets,
                  manager, celeryQueue, users, blacklist, rateLimit, issued, revoked, rateLog,
                  tasks, comments, tags, taskTags, nextId, cache, now, dbVersion,
                  invalidatedUpTo, resp, emitted, enqueued >>

StoreRecovers ==
  /\ ~redisUp
  /\ redisUp' = TRUE
  /\ UNCHANGED << celeryResults, request, inflight, unread, settings, delivered, closedSockets,
                  manager, celeryQueue, users, blacklist, rateLimit, issued, revoked, rateLog,
                  tasks, comments, tags, taskTags, nextId, cache, now, dbVersion,
                  invalidatedUpTo, resp, emitted, enqueued >>

\* ------------------------------------------------------------------ specifications

\* the stores, the clock and the in-process singletons right after start-up
InitStores ==
  /\ users = SeedUsers
  /\ tasks = << >>
  /\ comments = << >>
  /\ tags = {}
  /\ taskTags = EmptyBag
  /\ nextId = [tasks |-> 0, comments |-> 0, tags |-> 0, users |-> 0, jobs |-> 0, sockets |-> 0]
  /\ cache = << >>
  /\ redisUp = TRUE
  /\ now = 0
  /\ dbVersion = 0
  /\ invalidatedUpTo = 0
  /\ resp = [op |-> "none", status |-> 0]
  /\ emitted = {}
  /\ enqueued = {}
  /\ blacklist = << >>
  /\ rateLimit = << >>
  /\ issued = {}
  /\ revoked = {}
  /\ rateLog = << >>
  /\ celeryResults = << >>
  /\ request = [op |-> "none"]
  /\ inflight = << >>
  /\ unread = {}
  /\ delivered = {}
  /\ closedSockets = {}
  /\ manager = [active_connections |-> << >>, task_viewers |-> << >>]
  /\ celeryQueue = {}

\* start-up with no settings in the environment: the field defaults
Init ==
  /\ InitStores
  /\ settings = DefaultSettings

\* start-up under any environment the validators accept
InitDeployed ==
  /\ InitStores
  /\ settings \in SettingsValues

UserIdsNow == { u.id : u \in users }

\* task creation and the cached list
NextTask ==
  \/ \E c \in CreateInputs : CreateTask(c.by, TaskPayloads[c.payload], c.assigned_to)
  \/ \E uid \in UserIdsNow, f \in FilterInputs : GetTasks(uid, f)
  \/ Tick
  \/ StoreFails
  \/ StoreRecovers

SpecTask == Init /\ [][NextTask]_vars

\* task creation and the single-task operations
NextDetail ==
  \/ \E c \in CreateInputs : CreateTask(c.by, TaskPayloads[c.payload], c.assigned_to)
  \/ \E uid \in UserIdsNow, i \in 1..MaxTasks : GetTaskById(TaskIds[i], uid)
  \/ \E uid \in UserIdsNow, i \in 1..MaxTasks, update \in UpdateInputs :
        UpdateTask(TaskIds[i], update, uid)
  \/ \E uid \in UserIdsNow, i \in 1..MaxTasks : DeleteTask(TaskIds[i], uid)
  \/ StoreFails
  \/ StoreRecovers

SpecDetail == Init /\ [][NextDetail]_vars

\* tasks and their comments
NextComment ==
  \/ \E c \in CreateInputs : CreateTask(c.by, TaskPayloads[c.payload], c.assigned_to)
  \/ \E uid \in UserIdsNow, i \in 1..MaxTasks, content \in CommentContents :
        CreateComment(TaskIds[i], content, uid)

SpecComment == Init /\ [][NextComment]_vars

\* tags created, renamed, recoloured and deleted
NextTagName ==
  \/ \E name \in TagNameInputs, colour \in TagColourInputs : CreateTag(name, colour)
  \/ \E i \in 1..MaxTags, u \in TagUpdateInputs : UpdateTag(TagIds[i], u.name, u.color)
  \/ \E i \in 1..MaxTags : DeleteTag(TagIds[i])

SpecTagName == Init /\ [][NextTagName]_vars

\* the create-task requests that assign nobody (one by a member, one by the admin)
UnassignedCreateInputs == { c \in CreateInputs : c.assigned_to = None }

\* tasks, tags and their association
NextTag ==
  \/ \E c \in UnassignedCreateInputs :
        CreateTask(c.by, TaskPayloads[c.payload], c.assigned_to)
  \/ \E name \in TagNameInputs, colour \in TagColourInputs : CreateTag(name, colour)
  \/ \E i \in 1..MaxTags : DeleteTag(TagIds[i])
  \/ \E uid \in UserIdsNow, i \in 1..MaxTasks, j \in 1..MaxTags :
        AddTagToTask(TaskIds[i], TagIds[j], uid)
  \/ \E uid \in UserIdsNow, i \in 1..MaxTasks, j \in 1..MaxTags :
        RemoveTagFromTask(TaskIds[i], TagIds[j], uid)

SpecTag == Init /\ [][NextTag]_vars

\* registration and profile updates
NextUser ==
  \/ \E user_data \in RegisterInputs : RegisterUser(user_data)
  \/ \E uid \in UserIdsNow, data \in UpdateUserInputs : UpdateUser(uid, data)

SpecUser == Init /\ [][NextUser]_vars

\* the refresh tokens clients hold
RefreshTokensIssued == { t \in issued : t.type = "refresh" }

\* login, refresh and logout over time
NextAuth ==
  \/ \E login_data \in LoginInputs : Login(login_data)
  \/ \E token \in issued : RefreshToken(token)
  \/ \E token \in issued, refresh_token \in { << >> } \cup { << t >> : t \in RefreshTokensIssued } :
        Logout(token, refresh_token)
  \/ ClockTick
  \/ StoreFails
  \/ StoreRecovers

SpecAuth == Init /\ [][NextAuth]_vars

\* CSV export: requests, the worker, and the tasks they read
NextExport ==
  \/ \E c \in CreateInputs : CreateTask(c.by, TaskPayloads[c.payload], c.assigned_to)
  \/ \E uid \in UserIdsNow, q \in ExportInputs : ExportTasksToCsv(uid, q)
  \/ \E job \in celeryQueue : ExportTasksCsv(job)

SpecExport == Init /\ [][NextExport]_vars

\* the create-task requests of member u2 (one unassigned, one assigned to u3)
MemberCreateInputs == { c \in CreateInputs : c.by = "u2" }

\* WebSockets accepted in the comment specification
MaxViewerSockets == 2

\* comments and the WebSocket clients they are announced to
NextViewers ==
  \/ \E c \in MemberCreateInputs : CreateTask(c.by, TaskPayloads[c.payload], c.assigned_to)
  \/ \E uid \in UserIdsNow, i \in 1..MaxTasks : CreateComment(TaskIds[i], "first", uid)
  \/ \E uid \in UserIdsNow :
        nextId.sockets < MaxViewerSockets /\ WebsocketEndpoint(CreateAccessToken(uid))
  \/ \E w \in ConnectedSockets, i \in 1..MaxTasks : WsJoinTask(w, TaskIds[i])
  \/ \E w \in ConnectedSockets, i \in 1..MaxTasks : WsLeaveTask(w, TaskIds[i])
  \/ \E w \in ConnectedSockets : WsReply(w, "pong")
  \/ \E w \in ConnectedSockets : PeerCloses(w)
  \/ \E w \in closedSockets : WsDisconnect(w)

SpecViewers == Init /\ [][NextViewers]_vars

\* the sockets whose endpoint coroutine is running: registered, or with a
\* peer that went away and a WebSocketDisconnect still to be raised
RunningSockets == ConnectedSockets \cup closedSockets

\* presence: members u2 and u3 open WebSockets, join and leave task views,
\* send frames that cannot be parsed, and go away
NextPresence ==
  \/ \E uid \in { "u2", "u3" } : WebsocketEndpoint(CreateAccessToken(uid))
  \/ \E w \in RunningSockets, i \in 1..MaxTasks : WsJoinTask(w, TaskIds[i])
  \/ \E w \in ConnectedSockets, i \in 1..MaxTasks : WsLeaveTask(w, TaskIds[i])
  \/ \E w \in ConnectedSockets : WsReply(w, "pong")
  \/ \E w \in ConnectedSockets : PeerCloses(w)
  \/ \E w \in ConnectedSockets : PeerClosesUnread(w, TaskIds[1])
  \/ \E w \in closedSockets : WsDisconnect(w)
  \/ \E w \in ConnectedSockets : WsError(w)

SpecPresence == Init /\ [][NextPresence]_vars

\* every issued token presented to every endpoint that takes one
NextTokenRole ==
  \/ \E login_data \in LoginInputs : Login(login_data)
  \/ \E token \in issued : RefreshToken(token)
  \/ \E token \in issued : Logout(token, << >>)
  \/ \E token \in issued : WebsocketEndpoint(token)
  \/ ClockTick

SpecTokenRole == Init /\ [][NextTokenRole]_vars

\* comments written, edited, soft-deleted and listed
NextCommentLife ==
  \/ \E c \in MemberCreateInputs : CreateTask(c.by, TaskPayloads[c.payload], c.assigned_to)
  \/ \E uid \in UserIdsNow, i \in 1..MaxTasks : CreateComment(TaskIds[i], "first", uid)
  \/ \E uid \in UserIdsNow, i \in 1..MaxTasks, p \in CommentPages :
        GetComments(TaskIds[i], uid, p.page, p.limit)
  \/ \E uid \in UserIdsNow, i \in 1..MaxComments :
        UpdateComment(CommentIds[i], "edit", uid) /\ UNCHANGED request
  \/ \E uid \in UserIdsNow, i \in 1..MaxComments :
        DeleteComment(CommentIds[i], uid) /\ UNCHANGED request

SpecCommentLife == Init /\ [][NextCommentLife]_vars

\* profile updates that raise, and the error middleware around them
NextErrors ==
  \/ \E uid \in UserIdsNow, data \in UpdateUserInputs : UpdateUser(uid, data)
  \/ \E request_id \in RequestIds \cup { "unknown" } : LogErrorsMiddleware(request_id)

SpecErrors == InitDeployed /\ [][NextErrors]_vars

\* rate-limited requests of two users over time
NextRate ==
  \/ \E uid \in { "u2", "u3" } : RateLimitedRequest(uid, "api")
  \/ RateTick
  \/ StoreFails
  \/ StoreRecovers

SpecRate == Init /\ [][NextRate]_vars

\* concurrent requests of one user: the Redis commands of their
\* check_rate_limit calls interleave
NextRateRace ==
  \/ BeginCheck("u2", "api")
  \/ \E c \in DOMAIN inflight : CheckPrune(c)
  \/ \E c \in DOMAIN inflight : CheckCount(c)
  \/ \E c \in DOMAIN inflight : CheckAdd(c)
  \/ RateTick

SpecRateRace == Init /\ [][NextRateRace]_vars

\* comments on two tasks, edited and deleted under the path of either task
NextCommentPath ==
  \/ \E c \in MemberCreateInputs : CreateTask(c.by, TaskPayloads[c.payload], c.assigned_to)
  \/ \E uid \in UserIdsNow, i \in 1..MaxTasks : CreateComment(TaskIds[i], "first", uid)
  \/ \E uid \in UserIdsNow, i \in 1..MaxTasks, j \in 1..MaxComments :
        UpdateCommentEndpoint(TaskIds[i], CommentIds[j], "edit", uid)
  \/ \E uid \in UserIdsNow, i \in 1..MaxTasks, j \in 1..MaxComments :
        DeleteCommentEndpoint(TaskIds[i], CommentIds[j], uid)

SpecCommentPath == Init /\ [][NextCommentPath]_vars

\* the export requests of the members
MemberExportInputs == { q \in ExportInputs : q.assigned_to = None }

\* export jobs, their results, and every user asking for them by job id
NextExportResult ==
  \/ \E c \in MemberCreateInputs : CreateTask(c.by, TaskPayloads[c.payload], c.assigned_to)
  \/ \E uid \in { "u2", "u3" }, q \in MemberExportInputs : ExportTasksToCsv(uid, q)
  \/ \E job \in celeryQueue : ExportTasksCsv(job)
  \/ \E uid \in UserIdsNow, i \in 1..MaxExportJobs : CheckExportStatus(JobIds[i], uid)
  \/ \E uid \in UserIdsNow, i \in 1..MaxExportJobs : DownloadExport(JobIds[i], uid)

SpecExportResult == Init /\ [][NextExportResult]_vars

\* rate-limited requests of one user and the status requests between them
NextRateInfo ==
  \/ RateLimitedRequest("u2", "api")
  \/ \E uid \in { "u2", "u3" } : GetRateLimitInfo(uid, "api")
  \/ RateTick
  \/ StoreFails
  \/ StoreRecovers

SpecRateInfo == Init /\ [][NextRateInfo]_vars

\* ------------------------------------------------------------------ claims

\* C1: every list get_tasks returns to a member, computed or served from the
\* cache, contains only tasks that member created or is assigned to.
C1_MemberSeesOnlyOwnTasks ==
  (resp.op = "get_tasks" /\ resp.status = 200 /\ IsMember(UserById(resp.user))) =>
    \A i \in 1..Len(resp.body.tasks) :
      \/ resp.body.tasks[i].created_by = resp.user
      \/ resp.body.tasks[i].assigned_to = resp.user

\* C7: get_task_by_id answers 404 for an unknown id, 403 for a member who is
\* neither creator nor assignee, and returns the task to its creator, its
\* assignee or an admin.
C7_GetTaskByIdOutcomes ==
  resp.op = "get_task_by_id" =>
    LET found == TaskById(resp.task_id)
        caller == UserById(resp.user)
    IN IF found = << >> THEN resp.status = 404
       ELSE IF /\ IsMember(caller)
               /\ found[1].created_by # resp.user
               /\ found[1].assigned_to # resp.user
       THEN resp.status = 403
       ELSE resp.status = 200 /\ resp.body = found

\* C8: with the store reachable, a list computed from the database is served
\* again, unchanged, from the cache while its TTL runs and no task is written;
\* and once a task write has completed its invalidation no entry cached
\* before that write is served.
C8_ListCacheHitThenInvalidated ==
  /\ ( /\ resp.op = "get_tasks"
       /\ ~resp.fromCache
       /\ resp.storeUp
       /\ resp.entryVer = dbVersion
       /\ now < resp.at + CacheTtlTaskList )
     => LET key == TaskListKey(resp.user, resp.filters)
        IN Live(cache, key, now) /\ Deserialize(cache[key].value) = resp.body
  /\ (resp.op = "get_tasks" /\ resp.fromCache) => resp.entryVer >= invalidatedUpTo

\* C9: create_comment on an existing task succeeds with exactly one new
\* comment persisted and returned when the caller is an admin, the task's
\* creator or its assignee; a member who is neither gets 403 and nothing is
\* persisted; a missing task gives 404.
C9_CreateCommentOutcomes ==
  resp.op = "create_comment" =>
    LET found == TaskById(resp.task_id)
        caller == UserById(resp.user)
    IN IF found = << >>
       THEN resp.status = 404 /\ Len(comments) = resp.before
       ELSE IF \/ caller.role = ADMIN
               \/ found[1].created_by = resp.user
               \/ found[1].assigned_to = resp.user
       THEN /\ resp.status = 201
            /\ Len(comments) = resp.before + 1
            /\ resp.body = comments[Len(comments)]
       ELSE resp.status = 403 /\ Len(comments) = resp.before

\* number of association rows of the pair (task_id, tag_id)
PairCount(task_id, tag_id) ==
  CopiesIn([task_id |-> task_id, tag_id |-> tag_id], taskTags)

\* C10: a (task, tag) pair is associated at most once; an authorised attach
\* of an existing tag succeeds exactly when the tag was not attached and is
\* refused with 400 otherwise; an authorised detach succeeds exactly when the
\* tag was attached and is refused with 400 otherwise.
C10_TagPairAtMostOnce ==
  /\ \A i \in 1..Len(TaskIds), j \in 1..Len(TagIds) : PairCount(TaskIds[i], TagIds[j]) <= 1
  /\ (resp.op = "add_tag_to_task" /\ resp.status \notin { 403, 404 }) =>
       /\ resp.status \in { 200, 400 }
       /\ (resp.status = 200) <=> (resp.attachedBefore = 0)
       /\ PairCount(resp.task_id, resp.tag_id) = 1
  /\ (resp.op = "remove_tag_from_task" /\ resp.status \notin { 403, 404 }) =>
       /\ resp.status \in { 204, 400 }
       /\ (resp.status = 204) <=> (resp.attachedBefore = 1)
       /\ PairCount(resp.task_id, resp.tag_id) = 0

\* a second attach of an attached tag by the task's creator was refused
C10_WitnessSecondAttachRefused ==
  /\ resp.op = "add_tag_to_task"
  /\ resp.status = 400
  /\ resp.attachedBefore = 1
  /\ PairCount(resp.task_id, resp.tag_id) = 1

\* C2: a refresh token that has been blacklisted is refused with 401, and no
\* access token is issued, whenever the store is reachable and the token is
\* unexpired (the clock's whole second has not passed its exp claim); a token
\* never blacklisted refreshes successfully while unexpired; an expired token
\* is refused with 401.
C2_BlacklistedRefreshRejected ==
  (resp.op = "refresh" /\ resp.token.type = "refresh") =>
    LET unexpired == Seconds(resp.at) <= resp.token.exp
    IN /\ (resp.wasRevoked /\ resp.storeUp /\ unexpired) =>
            (resp.status = 401 /\ "body" \notin DOMAIN resp)
       /\ (~resp.wasRevoked /\ unexpired) =>
            (resp.status = 200 /\ resp.body.access_token \in issued)
       /\ ~unexpired => resp.status = 401

\* calls i and j of the log concern the same user and endpoint
SameKey(i, j) ==
  rateLog[i].user = rateLog[j].user /\ rateLog[i].endpoint = rateLog[j].endpoint

\* up to call k the calls of k's user and endpoint were made one after the
\* other (each read a later clock value than the one before) with the store
\* reachable
Sequential(k) ==
  \A i \in 1..k : SameKey(i, k) =>
    /\ rateLog[i].storeUp
    /\ \A j \in 1..(i - 1) : SameKey(j, k) => rateLog[j].at < rateLog[i].at

\* admitted earlier calls of k's user and endpoint inside the window that
\* trails call k
AdmittedInWindow(k) ==
  Cardinality({ j \in 1..(k - 1) :
                  /\ SameKey(j, k)
                  /\ rateLog[j].allowed
                  /\ rateLog[j].at > rateLog[k].at - WindowTicks })

\* C3: for sequential check_rate_limit calls of one user on one endpoint with
\* the store reachable, a call is admitted exactly when fewer than the limit
\* of admitted requests lie inside the trailing window, and is refused (429)
\* exactly when the limit is reached.
C3_SlidingWindowLimit ==
  \A k \in 1..Len(rateLog) :
    Sequential(k) => (rateLog[k].allowed <=> AdmittedInWindow(k) < RateLimitPerMinute)

\* the limit-th call was admitted, the next one refused, and a call made after
\* every earlier request had left the window was admitted again
C3_WitnessRefusedThenAdmitted ==
  \E k \in 1..Len(rateLog) :
    /\ Sequential(k)
    /\ rateLog[k].allowed
    /\ AdmittedInWindow(k) = 0
    /\ \E j \in 1..(k - 1) :
         /\ SameKey(j, k)
         /\ ~rateLog[j].allowed
         /\ AdmittedInWindow(j) = RateLimitPerMinute
         /\ \E i \in 1..(j - 1) :
              /\ SameKey(i, j)
              /\ rateLog[i].allowed
              /\ AdmittedInWindow(i) = RateLimitPerMinute - 1

\* C4: register_user with an e-mail an existing user holds is refused with
\* 400 and leaves the stored users unchanged.
C4_DuplicateEmailRejected ==
  (resp.op = "register" /\ \E u \in resp.before : u.email = resp.email) =>
    (resp.status = 400 /\ users = resp.before)

\* C5: every user created through registration has role member whatever role
\* the payload carried, and register / update-profile never change the role
\* of an existing user.
C5_RegisteredUsersAreMembers ==
  /\ \A u \in users : u.id \in Range(UserIds) => u.role = MEMBER
  /\ \A u \in users, seed \in SeedUsers : u.id = seed.id => u.role = seed.role
  /\ resp.op \in { "register", "update_user" } =>
       \A b \in resp.before : \E u \in users : u.id = b.id /\ u.role = b.role

\* a registration that asked for the admin role was stored as a member
C5_WitnessAdminRequestStoredAsMember ==
  /\ resp.op = "register"
  /\ resp.status = 201
  /\ resp.requested_role = ADMIN
  /\ resp.body \in users
  /\ resp.body.role = MEMBER

\* C6: authenticate_user answers an unknown e-mail and a known e-mail with a
\* wrong password with the same response (status 401, identical message).
C6_LoginFailureIndistinguishable ==
  \A unknown \in LoginInputs, wrong \in LoginInputs :
    ( /\ UserByEmail(unknown.email) = << >>
      /\ UserByEmail(wrong.email) # << >>
      /\ ~VerifyPassword(wrong.password, UserByEmail(wrong.email)[1].password_hash) )
    => ( /\ AuthenticateUser(unknown).status = 401
         /\ AuthenticateUser(unknown) = AuthenticateUser(wrong) )

\* the name a tag request asks for, as it would be stored
StoredName(name) == Lower(Strip(name))

\* C11: no two stored tags have names equal when case is ignored; creating a
\* tag, or renaming one, to a name that case-insensitively equals the name of
\* another existing tag is refused with 400 and stores nothing.
C11_TagNamesUniqueIgnoringCase ==
  /\ \A g \in tags, h \in tags : g.id # h.id => Lower(g.name) # Lower(h.name)
  /\ ( /\ resp.op = "create_tag"
       /\ \E g \in resp.before : Lower(g.name) = StoredName(resp.name) )
     => (resp.status = 400 /\ tags = resp.before)
  /\ ( /\ resp.op = "update_tag"
       /\ resp.status # 404
       /\ resp.name # NoText
       /\ \E g \in resp.before :
            g.id # resp.tag_id /\ Lower(g.name) = StoredName(resp.name) )
     => (resp.status = 400 /\ tags = resp.before)

\* a tag sent with different case and surrounding blanks than a stored tag's
\* name was refused, and a rename onto another tag's name was refused
C11_WitnessCaseVariantRefused ==
  \/ /\ resp.op = "create_tag"
     /\ resp.status = 400
     /\ \E g \in tags : g.name # resp.name /\ g.name = StoredName(resp.name)
  \/ /\ resp.op = "update_tag"
     /\ resp.status = 400
     /\ \E g \in tags : g.id # resp.tag_id /\ g.name # resp.name
                        /\ g.name = StoredName(resp.name)


\* C12: a CSV export job run for a member holds only tasks the member created
\* or is assigned to, whatever status, priority and assigned_to filters were
\* sent, and its task_count is the number of data rows of the CSV.
C12_ExportHoldsOnlyOwnTasks ==
  ( resp.op = "export_tasks_csv" /\ resp.state = "SUCCESS"
    /\ IsMember(UserById(resp.job.user_id)) )
  => LET rows == resp.result.csv_content.rows
         uid == resp.job.user_id
     IN /\ \A i \in 1..Len(rows) :
             \E k \in 1..Len(tasks) :
                /\ tasks[k].id = rows[i].ID
                /\ tasks[k].created_by = uid \/ tasks[k].assigned_to = uid
        /\ resp.result.task_count = Len(rows)

\* a member's export filtered on another user leaves out a task assigned to
\* that user which the member has no part in
C12_WitnessFilterOnOtherUser ==
  /\ resp.op = "export_tasks_csv"
  /\ resp.state = "SUCCESS"
  /\ IsMember(UserById(resp.job.user_id))
  /\ resp.job.filters.assigned_to # None
  /\ UUID(resp.job.filters.assigned_to) \notin { "ValueError", resp.job.user_id }
  /\ \E k \in 1..Len(tasks) :
        /\ tasks[k].assigned_to = UUID(resp.job.filters.assigned_to)
        /\ tasks[k].created_by # resp.job.user_id
        /\ \A i \in 1..Len(resp.result.csv_content.rows) :
              resp.result.csv_content.rows[i].ID # tasks[k].id


\* a user has a websocket in the manager on which a send succeeds
Reachable(user_id) ==
  /\ user_id \in DOMAIN manager.active_connections
  /\ manager.active_connections[user_id] \ closedSockets # {}

\* C13: in the step that creates a comment on a task, comment_added is put
\* on a websocket of exactly the users who were in that task's viewer set and
\* connected when the handler ran, and the handler sends nothing else.
C13_CommentAddedToViewersOnly ==
  [][ nextId'.comments # nextId.comments
      => /\ \A u \in UserIdsNow :
               ( \E d \in delivered' : /\ d.user_id = u
                                       /\ d.message.type = "comment_added"
                                       /\ d.message.task_id = resp'.task_id )
               <=> ( u \in ViewersOf(manager.task_viewers, resp'.task_id) /\ Reachable(u) )
         /\ \A d \in delivered' : /\ d.message.type = "comment_added"
                                  /\ d.message.comment = resp'.body.id
                                  /\ d.user_id \in UserIdsNow ]_vars

\* a comment was announced to a viewer while the task's connected assignee,
\* who is not viewing it, received nothing
C13_WitnessAssigneeNotViewing ==
  /\ resp.op = "create_comment"
  /\ resp.status = 201
  /\ \E d \in delivered : d.message.type = "comment_added" /\ d.user_id # resp.user
  /\ \E u \in UserIdsNow :
        /\ u # resp.user
        /\ u \in { TaskById(resp.task_id)[1].created_by, TaskById(resp.task_id)[1].assigned_to }
        /\ Reachable(u)
        /\ u \notin ViewersOf(manager.task_viewers, resp.task_id)
        /\ \A d \in delivered : d.user_id # u


\* C14: a token is accepted only in the role its type names: /auth/refresh
\* answers with an access token only for a token of type refresh, and
\* get_current_user and the WebSocket authentication let only a token of type
\* access through.
C14_TokenAcceptedOnlyInItsRole ==
  /\ (resp.op = "refresh" /\ resp.status = 200)
       => (resp.token.type = "refresh" /\ resp.body.access_token.type = "access")
  /\ (resp.op = "logout" /\ resp.token.type # "access") => resp.status = 401
  /\ (resp.op = "websocket_endpoint" /\ resp.token.type # "access") => resp.status = 1008
  /\ \A w \in ConnectedSockets :
        \E t \in issued : t.type = "access" /\ t.sub = w.user_id

\* an unexpired refresh token was refused by the WebSocket endpoint while a
\* connection opened with an access token is held
C14_WitnessRefreshRefusedOnSocket ==
  /\ resp.op = "websocket_endpoint"
  /\ resp.status = 1008
  /\ resp.token.type = "refresh"
  /\ TokenAccepted(resp.token)
  /\ ConnectedSockets # {}


\* a refresh with a token that a logout blacklisted is refused whenever the
\* store is reachable
C15_RevokedRefreshRefused ==
  (resp.op = "refresh" /\ resp.wasRevoked /\ resp.storeUp) => resp.status = 401

\* no access token is ever blacklisted, and an unexpired access token keeps
\* passing get_current_user (204, or 429 from the rate limiter) after logouts
C15_AccessTokenStaysUsable ==
  /\ \A t \in issued : t.type = "access" => BlacklistKey(t) \notin DOMAIN blacklist
  /\ ( resp.op = "logout" /\ resp.token.type = "access"
       /\ Seconds(resp.at) <= resp.token.exp ) => resp.status \in { 204, 429 }

\* a logout without a refresh token leaves the blacklist as it was
C15_LogoutWithoutBody ==
  ( resp'.op = "logout" /\ resp'.refresh_token = << >> /\ now' = now /\ redisUp' = redisUp )
  => blacklist' = blacklist

\* C15: after a logout that carries a refresh token, every later refresh with
\* that token is refused while the store is reachable; the access token that
\* authenticated the logout is not blacklisted and is accepted until it
\* expires; a logout without a refresh token blacklists nothing.
C15_LogoutRevokesOnlyRefreshToken ==
  /\ [](C15_RevokedRefreshRefused /\ C15_AccessTokenStaysUsable)
  /\ [][C15_LogoutWithoutBody]_vars


\* C16: update_user with an e-mail that differs from the caller's and is held
\* by another account is refused with 400, and the users table (the caller's
\* e-mail, password hash and full name included) is as it was before the call.
C16_TakenEmailRefusedWith400 ==
  ( /\ resp.op = "update_user"
    /\ resp.data.email # None
    /\ \E u \in resp.before : u.id = resp.user /\ u.email # resp.data.email
    /\ \E v \in resp.before : v.id # resp.user /\ v.email = resp.data.email )
  => (resp.status = 400 /\ users = resp.before)


\* the last handler was update_task or delete_task
C17_Modifying == resp.op \in { "update_task", "delete_task" }

\* a call by a member who did not create the task ends with 403 and no
\* notification; a call that succeeded was made by the creator or an admin
C17_OnlyCreatorOrAdmin ==
  C17_Modifying =>
    /\ ( /\ TaskById(resp.task_id) # << >>
         /\ IsMember(UserById(resp.user))
         /\ TaskById(resp.task_id)[1].created_by # resp.user )
       => (resp.status = 403 /\ emitted = {} /\ delivered = {})
    /\ resp.status = 200 => ~IsMember(UserById(resp.user))
                            \/ (resp.op = "update_task" /\ resp.body.created_by = resp.user)
                            \/ resp.op = "delete_task"

\* a call refused with 403 leaves the tasks table and the cache as they were
C17_RefusedCallChangesNothing ==
  (resp'.op \in { "update_task", "delete_task" } /\ resp'.status = 403 /\ redisUp' = redisUp)
  => (tasks' = tasks /\ cache' = cache /\ invalidatedUpTo' = invalidatedUpTo)

\* C17: update_task and delete_task change or remove a task only for its
\* creator or an admin; any other caller, a member who is only the assignee
\* included, gets 403, the task is unchanged, no cache entry is invalidated
\* and no notification is sent.
C17_UpdateDeleteOnlyByCreatorOrAdmin ==
  /\ []C17_OnlyCreatorOrAdmin
  /\ [][C17_RefusedCallChangesNothing]_vars


\* a listing answered 200 holds no soft-deleted row of the table, and its
\* total is the number of the task's rows that are not soft-deleted
C18_ListingLeavesOutDeleted ==
  (resp.op = "get_comments" /\ resp.status = 200) =>
    /\ \A i \in 1..Len(comments) :
          comments[i].deleted_at # Null =>
            \A k \in 1..Len(resp.body.comments) : resp.body.comments[k].id # comments[i].id
    /\ resp.body.total =
         Cardinality({ i \in 1..Len(comments) :
                         comments[i].task_id = resp.task_id /\ comments[i].deleted_at = Null })

\* a successful delete_comment leaves the row in the table with deleted_at
\* set, and a row with deleted_at set keeps its place and its timestamp
C18_DeletedStaysDeleted ==
  /\ (resp'.op = "delete_comment" /\ resp'.status = 204)
       => \E i \in 1..Len(comments') :
             comments'[i].id = resp'.comment_id /\ comments'[i].deleted_at # Null
  /\ \A i \in 1..Len(comments) :
        comments[i].deleted_at # Null
          => /\ i <= Len(comments')
             /\ comments'[i].id = comments[i].id
             /\ comments'[i].deleted_at # Null

\* C18: once delete_comment has succeeded the row is still stored, with its
\* soft-delete timestamp set, and every later get_comments for its task
\* leaves it out of the comments returned and out of total, whatever comment
\* operations come in between.
C18_SoftDeletedCommentNeverListed ==
  /\ []C18_ListingLeavesOutDeleted
  /\ [][C18_DeletedStaysDeleted]_vars

\* a listing made after a comment of the task was soft-deleted and then
\* edited by its author returns the task's other comment only
C18_WitnessListedAfterDelete ==
  /\ resp.op = "get_comments"
  /\ resp.status = 200
  /\ resp.body.total = 1
  /\ \E i \in 1..Len(comments) :
        /\ comments[i].task_id = resp.task_id
        /\ comments[i].deleted_at # Null
        /\ comments[i].content = "edit"


\* C19: every 429 of check_rate_limit carries a Retry-After that is a whole
\* number of seconds and at least 1, wherever in the window the oldest
\* remaining timestamp lies.
C19_RetryAfterPositive ==
  (resp.op = "check_rate_limit" /\ resp.status = 429)
  => (resp.retry_after \in Nat /\ resp.retry_after >= 1)


\* C20: while the store does not answer, check_rate_limit admits every
\* request and is_token_blacklisted reports no token as blacklisted, so an
\* unexpired token is served by refresh and by get_current_user as if nothing
\* were recorded.
C20_StoreFailureFailsOpen ==
  /\ \A k \in 1..Len(rateLog) : ~rateLog[k].storeUp => rateLog[k].allowed
  /\ ~redisUp => \A t \in issued : ~IsTokenBlacklisted(t)
  /\ ( resp.op = "refresh" /\ ~resp.storeUp /\ resp.token.type = "refresh"
       /\ Seconds(resp.at) <= resp.token.exp ) => resp.status = 200
  /\ ( resp.op = "logout" /\ ~resp.storeUp /\ resp.token.type = "access"
       /\ Seconds(resp.at) <= resp.token.exp ) => resp.status = 204

\* with the store down, a refresh token whose blacklist entry is still stored
\* was refreshed, and a request beyond the limit was admitted
C20_WitnessServedWhileStoreDown ==
  /\ resp.op = "refresh"
  /\ ~resp.storeUp
  /\ resp.status = 200
  /\ resp.wasRevoked
  /\ BlacklistKey(resp.token) \in DOMAIN blacklist
  /\ resp.at < blacklist[BlacklistKey(resp.token)].expireAt
  /\ \E k \in 1..Len(rateLog) :
        /\ ~rateLog[k].storeUp
        /\ rateLog[k].allowed
        /\ AdmittedInWindow(k) >= RateLimitPerMinute

\* C21: the 500 body built by the error middleware carries the exception text
\* only when the environment is not production; in production its detail is
\* the generic message whatever the other settings are; the body always
\* carries the request id.
C21_ProductionHidesExceptionText ==
  resp.op = "log_errors_middleware" =>
    /\ resp.status = 500
    /\ resp.content.request_id \in RequestIds \cup { "unknown" }
    /\ settings.environment = "production" =>
          resp.content.detail = "An unexpected error occurred"
    /\ resp.content.detail = resp.exception => settings.environment # "production"

\* the offline presence event for a user
C22_Offline(u) == [type |-> "user_status", user_id |-> u, status |-> "offline"]

\* a step that deregisters the last websocket of a user takes the user out of
\* every viewer set, and the offline event goes to every websocket still
\* registered, in this step or (the peer went away and the endpoint has yet to
\* raise WebSocketDisconnect) when that endpoint ends
C22_LastChannelGone ==
  \A u \in DOMAIN manager.active_connections :
    u \notin DOMAIN manager'.active_connections =>
      /\ \A t \in DOMAIN manager'.task_viewers : u \notin manager'.task_viewers[t]
      /\ \/ \A v \in DOMAIN manager'.active_connections :
              \A w \in manager'.active_connections[v] :
                [websocket |-> w, user_id |-> v, message |-> C22_Offline(u)] \in delivered'
         \/ \E w \in manager.active_connections[u] : w \in closedSockets'

\* C22: whenever the last registered websocket of a user is deregistered, by
\* client disconnect, by an error in the message loop or by pruning after a
\* failed send, the user leaves the online set and every task-viewer set, and
\* an offline presence event is broadcast to the other connected users.
C22_LastChannelGoneIsAnnounced == [][C22_LastChannelGone]_vars

\* a step that deregisters some but not all websockets of a user sends no
\* offline event for the user and keeps the user in every viewer set
C23_OneOfSeveralClosed ==
  \A u \in DOMAIN manager.active_connections :
    ( /\ u \in DOMAIN manager'.active_connections
      /\ manager'.active_connections[u] # manager.active_connections[u]
      /\ manager'.active_connections[u] \subseteq manager.active_connections[u] ) =>
      /\ \A d \in delivered' : d.message # C22_Offline(u)
      /\ \A t \in DOMAIN manager.task_viewers :
           u \in manager.task_viewers[t] =>
             t \in DOMAIN manager'.task_viewers /\ u \in manager'.task_viewers[t]

\* C23: closing one websocket of a user who still has another one open is
\* silent: no offline presence event reaches any other user, the user stays
\* online and keeps the viewer memberships.
C23_ClosingOneOfSeveralIsSilent == [][C23_OneOfSeveralClosed]_vars

\* C28: in every reachable state of the connection manager, every user id in
\* a task's viewer set has at least one registered websocket.
C28_ViewersAreOnline ==
  \A t \in DOMAIN manager.task_viewers :
    \A u \in manager.task_viewers[t] : u \in DOMAIN manager.active_connections

\* the handlers of TaskService that write
C24_TaskWrites == { "create_task", "update_task", "delete_task" }

\* a step that ends in one of the writing handlers emits notifications or
\* enqueues jobs only when it committed (dbVersion counts the commits), and
\* without a commit it leaves the tasks table as it was
C24_NothingBeforeCommit ==
  resp'.op \in C24_TaskWrites =>
    /\ (emitted' # {} \/ enqueued' # {}) =>
         \/ dbVersion' = dbVersion + 1 /\ resp'.status \in { 200, 201 }
         \/ UNCHANGED << resp, emitted, enqueued, dbVersion, tasks >>
    /\ dbVersion' = dbVersion =>
         /\ tasks' = tasks
         /\ \/ emitted' = {} /\ enqueued' = {} /\ delivered' = {}
            \/ UNCHANGED << resp, emitted, enqueued, delivered >>

\* C24: create_task, update_task and delete_task emit every notification and
\* enqueue every job only after the commit succeeded; when the commit fails
\* nothing is emitted, nothing is enqueued and the change is not persisted.
C24_NotificationsOnlyAfterCommit == [][C24_NothingBeforeCommit]_vars

\* a create_task whose commit failed, after one that committed and notified
C24_WitnessCommitFailed ==
  /\ resp.op = "create_task"
  /\ resp.status = 404
  /\ Len(tasks) = 1
  /\ emitted = {}
  /\ enqueued = {}

\* an update_task call by the creator of an existing task, or by an admin:
\* compared with the row as it was before the call, the status-changed message
\* is emitted exactly when a status was supplied that differs, the
\* task-assigned message exactly when an assignee was supplied that differs and
\* is a user, and the task-updated message lists exactly the supplied fields
\* whose value differs
C26_UpdateAnnounced ==
  LET update == resp'.update
      found == TaskById(resp'.task_id)
      task == found[1]
      differing == { field \in DOMAIN update : task[field] # update[field] }
  IN ( /\ resp'.op = "update_task"
       /\ resp' # resp
       /\ found # << >>
       /\ ~IsMember(UserById(resp'.user)) \/ task.created_by = resp'.user ) =>
       /\ resp'.status = 200
       /\ (\E m \in emitted' : m.type = "task_status_changed") <=> "status" \in differing
       /\ (\E m \in emitted' : m.type = "task_assigned") <=>
            ("assigned_to" \in differing /\ update.assigned_to # None)
       /\ \E m \in emitted' : m.type = "task_updated" /\ m.changes = differing

C27_StatusReadsOnly ==
  ( /\ resp'.op = "get_rate_limit_info"
    /\ now' = now
    /\ redisUp' = redisUp ) =>
    /\ resp'.body.limit = RateLimitPerMinute
    /\ redisUp =>
         LET inWindow == { m \in ZMembers(RateKey(resp'.user, resp'.endpoint)) :
                             m.score > now - WindowTicks }
         IN /\ resp'.body.used = Cardinality(inWindow)
            /\ resp'.body.remaining =
                 IF RateLimitPerMinute > Cardinality(inWindow)
                 THEN RateLimitPerMinute - Cardinality(inWindow) ELSE 0
    /\ rateLimit' = rateLimit

\* C27: the rate-limit status operation is read-only: get_rate_limit_info
\* reports limit, used = count and remaining = max(0, limit - count) and leaves
\* the stored window of that user and endpoint exactly as it was.
C27_RateLimitStatusIsReadOnly == [][C27_StatusReadsOnly]_vars

\* C25: for one user and endpoint, the requests check_rate_limit admitted
\* with timestamps inside any trailing window of window_seconds number at most
\* the limit, whatever the interleaving of concurrent calls and also when
\* several requests carry the same timestamp.
C25_AdmittedNeverExceedLimit ==
  \A k \in 1..Len(rateLog) :
    (rateLog[k].allowed /\ \A j \in 1..Len(rateLog) : rateLog[j].storeUp) =>
      Cardinality({ j \in 1..Len(rateLog) :
                      /\ SameKey(j, k)
                      /\ rateLog[j].allowed
                      /\ rateLog[j].at <= rateLog[k].at
                      /\ rateLog[j].at > rateLog[k].at - WindowTicks })
        <= RateLimitPerMinute

\* a step of the update-comment or delete-comment endpoint changes a stored
\* comment only if that comment belongs to the task named in the path
C29_ModifiesOnlyUnderItsTask ==
  \A i \in 1..Len(comments) :
    ( /\ request'.op \in { "update_comment", "delete_comment" }
      /\ Len(comments') = Len(comments)
      /\ comments'[i] # comments[i] ) =>
      comments[i].task_id = request'.task_id

\* C29: an update-comment or delete-comment request made under the path of
\* task X modifies a comment only if the comment belongs to task X.
C29_CommentPathTaskIsChecked == [][C29_ModifiesOnlyUnderItsTask]_vars

\* C30: the result of an export job (task count, filename, content) is
\* returned by the status and the download endpoint only to the user who
\* requested the export; another authenticated user who presents the same job
\* id does not receive it.
C30_ExportResultOnlyToRequester ==
  /\ ( /\ resp.op = "check_export_status"
       /\ "result" \in DOMAIN resp.body ) =>
       resp.user = celeryResults[resp.task_id].requested_by
  /\ ( /\ resp.op = "download_export"
       /\ resp.status = 200 ) =>
       resp.user = celeryResults[resp.task_id].requested_by

================================================================
